---- MODULE Spec2Model ----
(***************************************************************************)
(* Model of the lead consolidation ledger of gophotonics_leads_selenium.py *)
(* (consolidate_leads and the master CSV file it loads and rewrites).      *)
(*                                                                         *)
(* A lead is modelled by its dedup key (email, date, resource) and one     *)
(* representative non-key column (company).  The master file is a sequence *)
(* of text lines, the first being the header; a DataFrame is a sequence of *)
(* rows of cells, a cell being a string, a number or NaN, as pandas holds  *)
(* them.  The texts of the model hold one number ("1550"), their           *)
(* whitespace is the blank, and dates are parsed value by value.           *)
(*                                                                         *)
(* Spec runs one instance with to_csv as a single step; SpecIO splits      *)
(* to_csv into its open and its writes, any of which may fail; SpecConc    *)
(* runs two instances of SpecIO on the same files.  SpecMerge runs         *)
(* consolidate_leads on a given directory, SpecMain runs main with its     *)
(* sync stages.  SpecNorm is the loop body of consolidate_leads for one    *)
(* CSV, a lead there having all its columns, and SpecSummary is the        *)
(* summary report; the texts of these two are computed character by        *)
(* character.  SpecIngest is consolidate_leads file by file on leads of    *)
(* all columns, the master file with its header.  SpecSweep is             *)
(* cleanup_old_files, SpecHub the two HubSpot syncs row by row, SpecSheets *)
(* sync_to_google_sheets call by call, and SpecDriver main with its stages *)
(* as calls that return or raise (SpecDriverFair: every call ends).        *)
(***************************************************************************)
EXTENDS Naturals, Sequences, FiniteSets

\* ------------------------------------------------------------------ bounds

\* Export files the download directory may hold.
MaxFiles == 2
\* Rows over all export files of the download directory.
MaxLeads == 2
\* Executions of consolidate_leads.
MaxRuns == 2

\* --------------------------------------------------------------- data model

Cols == {"email", "date", "resource", "company"}

\* Cells of a DataFrame: text, NaN, or a number (int64 / float64 column).
Str(s) == [k |-> "str", v |-> s]
NaN == [k |-> "nan", v |-> ""]
Int(s) == [k |-> "int", v |-> s]
Float(s) == [k |-> "float", v |-> s]

\* Texts pandas reads as a number, with the number's canonical digits.
IsNumeric(t) == t \in {"1550", "1550.0"}
NumCanon(t) == IF t = "1550.0" THEN "1550" ELSE t
FloatRepr(v) == IF v = "1550" THEN "1550.0" ELSE v

\* Texts pd.read_csv reads as missing (its default na_values).
IsNaText(t) == t \in {"", "N/A", "NA", "NULL", "NaN", "None", "n/a", "nan", "null"}

\* The header line written by to_csv: the column names.
Header == [c \in Cols |-> c]

\* ------------------------------------------------------------ pure helpers

RECURSIVE SeqSum(_)
SeqSum(s) == IF s = <<>> THEN 0 ELSE Head(s) + SeqSum(Tail(s))

RECURSIVE Flatten(_)
Flatten(ss) == IF ss = <<>> THEN <<>> ELSE Head(ss) \o Flatten(Tail(ss))

\* The elements of s at the indices in keep, from index i on, in order.
RECURSIVE SelectFrom(_, _, _)
SelectFrom(s, keep, i) ==
    IF i > Len(s) THEN <<>>
    ELSE (IF i \in keep THEN <<s[i]>> ELSE <<>>) \o SelectFrom(s, keep, i + 1)

SelectIdx(s, keep) == SelectFrom(s, keep, 1)

\* ------------------------------------------------- pd.read_csv / df.to_csv

\* dtype pandas infers for a column from its texts: a column whose present
\* values are all numbers is int64 (none missing, none with a fraction
\* part), else float64; any other column stays object (text).
ColumnKind(texts) ==
    LET present == {i \in DOMAIN texts : ~IsNaText(texts[i])}
    IN  IF present # {} /\ \A i \in present : IsNumeric(texts[i])
        THEN IF present = DOMAIN texts /\ \A i \in present : NumCanon(texts[i]) = texts[i]
             THEN "int" ELSE "float"
        ELSE "str"

\* One text of a column read into a cell of the column's dtype.
ReadCell(t, kind) ==
    IF IsNaText(t) THEN NaN
    ELSE IF kind = "int" THEN Int(NumCanon(t))
    ELSE IF kind = "float" THEN Float(NumCanon(t))
    ELSE Str(t)

\* pd.read_csv(master_file): the first line is the header, the others the
\* rows; every column is converted by the dtype inferred for it.
ReadCsv(lines) ==
    LET data == Tail(lines)
        kind == [c \in Cols |-> ColumnKind([i \in DOMAIN data |-> data[i][c]])]
    IN  [i \in DOMAIN data |-> [c \in Cols |-> ReadCell(data[i][c], kind[c])]]

\* str(value) of a cell, and the text to_csv writes for it (na_rep = '').
CellText(cell) ==
    IF cell.k = "nan" THEN ""
    ELSE IF cell.k = "float" THEN FloatRepr(cell.v)
    ELSE cell.v

\* combined_df.to_csv(master_file, index=False): header line, then the rows.
ToCsv(df) == <<Header>> \o [i \in DOMAIN df |-> [c \in Cols |-> CellText(df[i][c])]]

\* ------------------------------------------------------------- normalizer

\* Text with surrounding whitespace removed (str.strip); the whitespace of
\* the modelled texts is the blank.
RECURSIVE Strip(_)
Strip(t) ==
    IF t = "" THEN t
    ELSE IF SubSeq(t, 1, 1) = " " THEN Strip(SubSeq(t, 2, Len(t)))
    ELSE IF SubSeq(t, Len(t), Len(t)) = " " THEN Strip(SubSeq(t, 1, Len(t) - 1))
    ELSE t

\* safe_str without the strip().
safe_str_unstripped(value) == IF value.k = "nan" THEN "" ELSE CellText(value)

\* safe_str: '' for a missing value, else the trimmed str(value).
safe_str(value) == IF value.k = "nan" THEN "" ELSE Strip(CellText(value))

\* The lead dict built from one row of an export.
NormalizeRow(row) == [c \in Cols |-> Str(safe_str(row[c]))]

\* normalized_data of one export file: the leads of its rows, in row order,
\* those with an empty email left out.
NormalizeFile(lines) ==
    LET df == ReadCsv(lines)
        leads == [i \in DOMAIN df |-> NormalizeRow(df[i])]
    IN  SelectIdx(leads, {i \in DOMAIN leads : leads[i].email.v # ""})

\* AllLeads without the per-file try: the first CSV that cannot be parsed ends
\* the loop, the files after it are not read.
AllLeadsStopAtBadFile(csvs) ==
    LET bad == {i \in DOMAIN csvs : ~csvs[i].ok}
        upto == IF bad = {} THEN Len(csvs)
                ELSE (CHOOSE i \in bad : \A j \in bad : i <= j) - 1
    IN  Flatten([i \in 1..upto |-> NormalizeFile(csvs[i].lines)])

\* all_leads: the leads of every export file of the directory in glob order;
\* a file pd.read_csv cannot parse raises inside the per-file try and adds
\* nothing.
AllLeads(csvs) ==
    Flatten([i \in DOMAIN csvs |-> IF csvs[i].ok THEN NormalizeFile(csvs[i].lines) ELSE <<>>])

\* str.lower() of a text.
UpperCase == "ABCDEFGHIJKLMNOPQRSTUVWXYZ"
LowerCase == "abcdefghijklmnopqrstuvwxyz"

LowerChar(c) ==
    IF \E i \in 1..Len(UpperCase) : SubSeq(UpperCase, i, i) = c
    THEN LET i == CHOOSE i \in 1..Len(UpperCase) : SubSeq(UpperCase, i, i) = c
         IN  SubSeq(LowerCase, i, i)
    ELSE c

RECURSIVE Lower(_)
Lower(t) == IF t = "" THEN t ELSE LowerChar(SubSeq(t, 1, 1)) \o Lower(SubSeq(t, 2, Len(t)))

\* sub in t, for two texts.
Contains(sub, t) ==
    \E i \in 1..(Len(t) + 1) :
        i + Len(sub) <= Len(t) + 1 /\ SubSeq(t, i, i + Len(sub) - 1) = sub

\* Where the last occurrence of the character c is in t, 0 when there is none.
LastIndexOf(c, t) ==
    LET at == {i \in 1..Len(t) : SubSeq(t, i, i) = c}
    IN  IF at = {} THEN 0 ELSE CHOOSE i \in at : \A j \in at : j <= i

\* url.split('/')[-1]
LastSegment(url) == SubSeq(url, LastIndexOf("/", url) + 1, Len(url))

\* Path.stem: the file name without its last suffix.
Stem(name) ==
    IF LastIndexOf(".", name) > 1 THEN SubSeq(name, 1, LastIndexOf(".", name) - 1) ELSE name

\* The source type matched without lower().
SourceTypeCaseSensitive(filename) ==
    IF Contains("datasheet", filename) \/ Contains("data_sheet", filename) THEN "Datasheet"
    ELSE IF Contains("whitepaper", filename) THEN "Whitepaper"
    ELSE IF Contains("quotation", filename) THEN "Quotation"
    ELSE IF Contains("inquiry", filename) \/ Contains("contact", filename) THEN "Contact Inquiry"
    ELSE "Other"

\* The source type of a CSV from its stem.
SourceType(filename) ==
    IF Contains("datasheet", Lower(filename)) \/ Contains("data_sheet", Lower(filename))
    THEN "Datasheet"
    ELSE IF Contains("whitepaper", Lower(filename)) THEN "Whitepaper"
    ELSE IF Contains("quotation", Lower(filename)) THEN "Quotation"
    ELSE IF Contains("inquiry", Lower(filename)) \/ Contains("contact", Lower(filename))
    THEN "Contact Inquiry"
    ELSE "Other"

\* row.get(key, default) of a row of df.iterrows(): a row is a function from
\* the column labels of the table to cells.
row_get_non_null(row, key, default) ==
    IF key \in DOMAIN row /\ row[key].k # "nan" THEN row[key] ELSE default

row_get(row, key, default) == IF key \in DOMAIN row THEN row[key] ELSE default

\* The resource taken from the first column that has a value.
ResourceByValue(row) ==
    IF "Part Number" \in DOMAIN row /\ safe_str(row["Part Number"]) # ""
    THEN safe_str(row["Part Number"])
    ELSE IF "White Paper Title" \in DOMAIN row /\ safe_str(row["White Paper Title"]) # ""
    THEN safe_str(row["White Paper Title"])
    ELSE IF "Product Url" \in DOMAIN row
    THEN LastSegment(safe_str(row["Product Url"]))
    ELSE ""

\* lead['resource']: by the first of the three columns the table has.
Resource(row) ==
    IF "Part Number" \in DOMAIN row
    THEN safe_str(row_get(row, "Part Number", Str("")))
    ELSE IF "White Paper Title" \in DOMAIN row
    THEN safe_str(row_get(row, "White Paper Title", Str("")))
    ELSE IF "Product Url" \in DOMAIN row
    THEN LET url == safe_str(row_get(row, "Product Url", Str("")))
         IN  IF url # "" THEN LastSegment(url) ELSE ""
    ELSE ""

\* The lead dict of one row of a CSV, its values as cells of new_leads_df.
NormalizeLead(row, source_type, source_file, now) ==
    [email |-> Str(safe_str(row_get(row, "User Email", row_get(row, "email", Str(""))))),
     name |-> Str(safe_str(row_get(row, "User Name", row_get(row, "name", Str(""))))),
     company |-> Str(safe_str(row_get(row, "User Company", row_get(row, "company", Str(""))))),
     phone |-> Str(safe_str(row_get(row, "User Telephone",
                      row_get(row, "telephone", row_get(row, "phone", Str("")))))),
     country |-> Str(safe_str(row_get(row, "User Country", row_get(row, "country", Str(""))))),
     state |-> Str(safe_str(row_get(row, "User State", row_get(row, "state", Str(""))))),
     city |-> Str(safe_str(row_get(row, "User City", row_get(row, "city", Str(""))))),
     address |-> Str(safe_str(row_get(row, "User Address", row_get(row, "address", Str(""))))),
     date |-> Str(safe_str(row_get(row, "Downloaded On", row_get(row, "downloaded_on", Str(""))))),
     resource |-> Str(Resource(row)),
     source_type |-> Str(source_type),
     source_file |-> Str(source_file),
     imported_at |-> Str(now)]

\* ------------------------------------------------------------------ merge

\* The drop_duplicates subset of a row.
Key(r) == <<r.email, r.date, r.resource>>

\* pd.concat([master_df, new_leads_df]), or new_leads_df alone when master_df
\* is empty.
Concat(master, leads) == IF master = <<>> THEN leads ELSE master \o leads

\* drop_duplicates(subset=[email, date, resource], keep='first').
KeepsRow(df, i) == \A j \in 1..(i - 1) : Key(df[j]) # Key(df[i])

\* DropDuplicates with keep='last'.
DropDuplicatesKeepLast(df) ==
    SelectIdx(df, {i \in DOMAIN df : \A j \in (i + 1)..Len(df) : Key(df[j]) # Key(df[i])})

DropDuplicates(df) == SelectIdx(df, {i \in DOMAIN df : KeepsRow(df, i)})

\* pd.to_datetime(date, errors='coerce'): a point in time, or NaT (0) for a
\* missing or unparsable date.  The date column holds no number in this model.
NaT == 0

ParseDate(cell) ==
    IF cell.k # "str" THEN NaT
    ELSE IF cell.v = "2024-01-01" THEN 1
    ELSE IF cell.v = "2024-01-02" THEN 2
    ELSE NaT

\* The orders sort_values('date_parsed', ascending=False) may produce, as
\* sequences of row indices: the rows with a parsed date by date descending
\* (the default quicksort leaves the order of equal dates open), then the NaT
\* rows in their original order (na_position='last').
RECURSIVE Perms(_)
Perms(S) ==
    IF S = {} THEN {<<>>}
    ELSE UNION {{<<x>> \o p : p \in Perms(S \ {x})} : x \in S}

RECURSIVE DatedOrders(_, _)
DatedOrders(df, times) ==
    IF times = {} THEN {<<>>}
    ELSE LET t == CHOOSE x \in times : \A y \in times : x >= y
             ties == {i \in DOMAIN df : ParseDate(df[i].date) = t}
         IN  {p \o q : p \in Perms(ties), q \in DatedOrders(df, times \ {t})}

\* SortOrders of sort_values with ascending=True.
SortOrdersAscending(df) ==
    LET times == {ParseDate(df[i].date) : i \in DOMAIN df} \ {NaT}
        idx == [i \in DOMAIN df |-> i]
        undated == SelectIdx(idx, {i \in DOMAIN df : ParseDate(df[i].date) = NaT})
    IN  {[i \in DOMAIN p |-> p[Len(p) + 1 - i]] \o undated : p \in DatedOrders(df, times)}

SortOrders(df) ==
    LET times == {ParseDate(df[i].date) : i \in DOMAIN df} \ {NaT}
        idx == [i \in DOMAIN df |-> i]
        undated == SelectIdx(idx, {i \in DOMAIN df : ParseDate(df[i].date) = NaT})
    IN  {p \o undated : p \in DatedOrders(df, times)}

SortValues(df, perm) == [i \in DOMAIN df |-> df[perm[i]]]

\* ------------------------------------------------------------------ state

\* The instances of the script that may run (one in Spec, both in SpecConc).
Procs == {"main1", "main2"}

VARIABLES
    master_file,   \* MASTER_FILE on disk: [exists, lines]
    download_dir,  \* the .xlsx exports of DOWNLOAD_DIR, in glob order
    csv_files,     \* the .csv files of DOWNLOAD_DIR, in glob order
    pc,            \* where each instance is in main
    master_df,     \* consolidate_leads: the master as loaded
    combined_df,   \* consolidate_leads: the frame to_csv writes
    offset,        \* lines the instance's open file handle has written
    before,        \* history: master_file when the run loaded it
    wrote,         \* history: the run called to_csv
    rerun,         \* history: the run has the CSV files of the instance's last,
                   \*          completed run
    last_writer,   \* history: the instance that wrote to master_file last
    runs,          \* runs of main started so far
    csv_file,         \* one CSV of the loop of consolidate_leads, as read
    normalized_data,  \* consolidate_leads: the leads of csv_file
    source_type_col,  \* combined_df['source_type'] when the summary is made
    printed,          \* the lines printed that carry a count
    stage,            \* where the part of consolidate_leads run on its own is
    sync,             \* the sync stages of main: outcomes, and the master file
                      \* when they began
    dir_listing,      \* cleanup_old_files: the entries download_dir.glob("*") yields
    on_disk,          \* cleanup_old_files: the entries still in the directory
    time_now,         \* cleanup_old_files: time.time()
    keep_days,        \* cleanup_old_files: its argument
    removed_count,    \* cleanup_old_files: its counter
    sweep_pc,         \* cleanup_old_files: not called, returned, or raised
    ledger,           \* MASTER_FILE on disk with all its columns: [exists, header, lines]
    ledger_df,        \* consolidate_leads: master_df with all its columns
    csv_queue,        \* consolidate_leads: the CSV files the loop has yet to take
    files_done,       \* history: the CSV files the loop has taken, with their end
    collected_leads,  \* consolidate_leads: all_leads, the leads of the files so far
    ingest_pc,        \* where consolidate_leads, its rows of all columns, is
    hub_client,       \* the HubSpot sync that runs: sync_to_hubspot or ContactSyncer
    hub_rows,         \* the email cells of the rows the loop has yet to take
    hub_contacts,     \* the emails that have a contact in HubSpot
    hub_counts,       \* success_count, update_count, create_count, error_count
    hub_log,          \* history: per row taken, its email, whether it had a
                      \* contact, the API calls made for it, the errors counted
    hub_pc,           \* where the HubSpot sync is
    worksheet,        \* the rows of the first worksheet of the Google sheet
    sheet_prior,      \* history: worksheet when sync_to_google_sheets was called
    sheet_df,         \* sync_to_google_sheets: df, the master file as read
    sheet_pc,         \* where sync_to_google_sheets is
    main_pc,          \* where main is: not called, in a stage, at its finally, left
    driver,           \* the Chrome driver of the execution: none, open, quit
    quit_calls,       \* history: calls of driver.quit() in the execution
    pending,          \* the stage whose exception is on its way to the caller
    main_log          \* history: how the executions of main that are over ended

\* The state of the ledger and of the runs on it.
ledger_vars == <<master_file, download_dir, csv_files, pc, master_df, combined_df,
                 offset, before, wrote, rerun, last_writer, runs>>

\* The same without the position of the instances in main.
ledger_vars_but_pc == <<master_file, download_dir, csv_files, master_df, combined_df,
                        offset, before, wrote, rerun, last_writer, runs>>

\* The state of the parts of consolidate_leads that are run on their own.
part_vars == <<csv_file, normalized_data, source_type_col, printed, stage>>

\* The state of cleanup_old_files.
sweep_vars == <<dir_listing, on_disk, time_now, keep_days, removed_count, sweep_pc>>

\* The state of the functions modelled apart from the ledger.
\* The state of consolidate_leads on leads of all columns.
ingest_vars == <<ledger, ledger_df, csv_queue, files_done, collected_leads, ingest_pc>>

\* The state of the HubSpot syncs.
hub_vars == <<hub_client, hub_rows, hub_contacts, hub_counts, hub_log, hub_pc>>

\* The state of sync_to_google_sheets on a worksheet.
sheet_vars == <<worksheet, sheet_prior, sheet_df, sheet_pc>>

\* The state of main and of its driver.
driver_vars == <<main_pc, driver, quit_calls, pending, main_log>>

ops_vars == <<sweep_vars, ingest_vars, hub_vars, sheet_vars, driver_vars>>

vars == <<ledger_vars, part_vars, sync, ops_vars>>

NoFile == [exists |-> FALSE, lines |-> <<>>]

\* No CSV in hand.
NoCsv == [name |-> "", ok |-> FALSE, df |-> <<>>]

\* The parts run on their own are not run.
PartsIdle ==
    /\ csv_file = NoCsv
    /\ normalized_data = <<>>
    /\ source_type_col = <<>>
    /\ printed = <<>>
    /\ stage = "idle"

\* main has not reached its sync stages.
SyncIdle == sync = [sheets |-> "none", hubspot |-> "none", ledger |-> NoFile, run |-> 0]

\* cleanup_old_files is not called.
SweepIdle ==
    /\ dir_listing = <<>>
    /\ on_disk = {}
    /\ time_now = 0
    /\ keep_days = 0
    /\ removed_count = 0
    /\ sweep_pc = "idle"

\* The functions modelled apart from the ledger are not called.
\* No frame yet: pd.DataFrame().
EmptyFrame == [columns |-> <<>>, rows |-> <<>>]

\* No master file of all columns.
NoLedger == [exists |-> FALSE, header |-> <<>>, lines |-> <<>>]

\* consolidate_leads on leads of all columns is not run.
IngestIdle ==
    /\ ledger = NoLedger
    /\ ledger_df = EmptyFrame
    /\ csv_queue = <<>>
    /\ files_done = <<>>
    /\ collected_leads = <<>>
    /\ ingest_pc = "idle"

\* The counters of a HubSpot sync when its loop begins.
NoCounts == [success |-> 0, updated |-> 0, created |-> 0, errors |-> 0]

\* No HubSpot sync runs.
HubIdle ==
    /\ hub_client = "none"
    /\ hub_rows = <<>>
    /\ hub_contacts = {}
    /\ hub_counts = NoCounts
    /\ hub_log = <<>>
    /\ hub_pc = "idle"

\* sync_to_google_sheets is not run on a worksheet.
SheetIdle ==
    /\ worksheet = <<>>
    /\ sheet_prior = <<>>
    /\ sheet_df = EmptyFrame
    /\ sheet_pc = "idle"

\* main, its stages taken as calls that return or raise, is not run.
DriverIdle ==
    /\ main_pc = "idle"
    /\ driver = "none"
    /\ quit_calls = 0
    /\ pending = "none"
    /\ main_log = <<>>

OpsIdle == SweepIdle /\ IngestIdle /\ HubIdle /\ SheetIdle /\ DriverIdle

\* One row of an export sheet, as pd.read_excel returns it.
Lead(email, date, resource, company) ==
    [email |-> email, date |-> Str(date), resource |-> resource, company |-> Str(company)]

\* Rows an export sheet may hold: two rows with the same key that differ in
\* company, a row with a numeric part number, two rows with an unparsable
\* date, one of them without a resource, and a row without an email.
ExportRows ==
    {Lead(Str("a@x.com"), "2024-01-01", Str("R1"), "OldCo"),
     Lead(Str("a@x.com"), "2024-01-01", Str("R1"), "NewCo"),
     Lead(Str("a@x.com"), "2024-01-02", Int("1550"), "OldCo"),
     Lead(Str("a@x.com"), "soon", Str("R1"), "OldCo"),
     Lead(Str("a@x.com"), "soon", NaN, "NewCo"),
     Lead(NaN, "2024-01-01", Str("R1"), "OldCo")}

\* An export: a workbook pd.read_excel cannot read ("corrupt"), one whose
\* converted CSV pd.read_csv cannot parse ("unparsable"), or a table.
ExportFiles(maxRows) ==
    {[kind |-> "corrupt", rows |-> <<>>], [kind |-> "unparsable", rows |-> <<>>]}
    \cup {[kind |-> "table", rows |-> rs] :
            rs \in UNION {[1..n -> ExportRows] : n \in 1..maxRows}}

RowCount(dir) == SeqSum([i \in DOMAIN dir |-> Len(dir[i].rows)])

\* The master file when the model starts: none yet, or the file an earlier run
\* wrote for a lead whose export has since left DOWNLOAD_DIR.
EarlierLedger ==
    [exists |-> TRUE,
     lines |-> ToCsv(<<NormalizeRow(Lead(Str("a@x.com"), "2024-01-01", Str("R1"), "OldCo"))>>)]

Init ==
    /\ master_file \in {NoFile, EarlierLedger}
    /\ download_dir = <<>>
    /\ csv_files = <<>>
    /\ pc = [p \in Procs |-> "idle"]
    /\ master_df = [p \in Procs |-> <<>>]
    /\ combined_df = [p \in Procs |-> <<>>]
    /\ offset = [p \in Procs |-> 0]
    /\ before = [p \in Procs |-> NoFile]
    /\ wrote = [p \in Procs |-> FALSE]
    /\ rerun = [p \in Procs |-> FALSE]
    /\ last_writer = "nobody"
    /\ runs = 0
    /\ PartsIdle
    /\ SyncIdle
    /\ OpsIdle

\* ---------------------------------------------------------------- actions

\* Where an instance is between two runs of main: not started, back from
\* consolidate_leads ("done", the stages after it not looked at), back from
\* the sync stages ("returned"), or left by an exception of consolidate_leads
\* ("read_error", "write_error").
Resting == {"idle", "done", "returned", "read_error", "write_error"}

\* export_leads of an instance: one more .xlsx appears in DOWNLOAD_DIR, before
\* the instance's conversion and consolidation.
ExportLeads(p) ==
    /\ pc[p] \in Resting
    /\ Len(download_dir) < MaxFiles
    /\ \E f \in ExportFiles(MaxLeads - RowCount(download_dir)) :
          download_dir' = Append(download_dir, f)
    /\ UNCHANGED <<master_file, csv_files, pc, master_df, combined_df, offset,
                   before, wrote, rerun, last_writer, runs, part_vars, sync, ops_vars>>

\* The .csv convert_downloads_to_csv leaves for one export; a workbook that
\* cannot be read raises inside the per-file try and leaves none.
ConvertFile(f) ==
    IF f.kind = "table" THEN [ok |-> TRUE, lines |-> ToCsv(f.rows)]
    ELSE [ok |-> FALSE, lines |-> <<>>]

ConvertAll(dir) ==
    LET readable == SelectIdx(dir, {i \in DOMAIN dir : dir[i].kind # "corrupt"})
    IN  [i \in DOMAIN readable |-> ConvertFile(readable[i])]

\* What a run of main sets up before consolidate_leads reads the master file:
\* convert_downloads_to_csv(DOWNLOAD_DIR) and the run's fresh locals.
StartRun(p) ==
    /\ pc[p] \in Resting
    /\ runs < MaxRuns
    /\ runs' = runs + 1
    /\ csv_files' = ConvertAll(download_dir)
    /\ rerun' = [rerun EXCEPT ![p] = pc[p] = "done" /\ ConvertAll(download_dir) = csv_files]
    /\ before' = [before EXCEPT ![p] = master_file]
    /\ combined_df' = [combined_df EXCEPT ![p] = <<>>]
    /\ offset' = [offset EXCEPT ![p] = 0]
    /\ wrote' = [wrote EXCEPT ![p] = FALSE]

\* main up to the load of consolidate_leads: the master file is read if it
\* exists.  pd.read_csv raises on a file with no header line (EmptyDataError),
\* and the exception leaves consolidate_leads and main.
LoadMaster(p) ==
    /\ StartRun(p)
    /\ IF master_file.exists /\ master_file.lines = <<>>
       THEN /\ pc' = [pc EXCEPT ![p] = "read_error"]
            /\ master_df' = [master_df EXCEPT ![p] = <<>>]
       ELSE /\ pc' = [pc EXCEPT ![p] = "loaded"]
            /\ master_df' = [master_df EXCEPT ![p] =
                  IF master_file.exists THEN ReadCsv(master_file.lines) ELSE <<>>]
    /\ UNCHANGED <<master_file, download_dir, last_writer, part_vars, sync, ops_vars>>

\* pd.read_csv(master_file) raises because the file cannot be read.
LoadFails(p) ==
    /\ StartRun(p)
    /\ master_file.exists
    /\ pc' = [pc EXCEPT ![p] = "read_error"]
    /\ master_df' = [master_df EXCEPT ![p] = <<>>]
    /\ UNCHANGED <<master_file, download_dir, last_writer, part_vars, sync, ops_vars>>

\* MergeLeads without the early return when there is no lead.
MergeLeadsNoEarlyReturn(p) ==
    /\ pc[p] = "loaded"
    /\ LET deduped == DropDuplicates(Concat(master_df[p], AllLeads(csv_files)))
       IN  \E perm \in SortOrders(deduped) :
               combined_df' = [combined_df EXCEPT ![p] = SortValues(deduped, perm)]
    /\ pc' = [pc EXCEPT ![p] = "persist"]
    /\ UNCHANGED <<master_file, download_dir, csv_files, master_df, offset,
                   before, wrote, rerun, last_writer, runs, part_vars, sync, ops_vars>>

\* consolidate_leads from the CSV loop to the sorted frame: normalize every
\* CSV, return early when there is no lead, else concat, drop_duplicates and
\* sort_values.
MergeLeads(p) ==
    /\ pc[p] = "loaded"
    /\ LET all_leads == AllLeads(csv_files)
           deduped == DropDuplicates(Concat(master_df[p], all_leads))
       IN  IF all_leads = <<>>
           THEN /\ pc' = [pc EXCEPT ![p] = "done"]
                /\ UNCHANGED combined_df
           ELSE /\ pc' = [pc EXCEPT ![p] = "persist"]
                /\ \E perm \in SortOrders(deduped) :
                      combined_df' = [combined_df EXCEPT ![p] = SortValues(deduped, perm)]
    /\ UNCHANGED <<master_file, download_dir, csv_files, master_df, offset,
                   before, wrote, rerun, last_writer, runs, part_vars, sync, ops_vars>>

\* to_csv as one step: open, every line, close, with no failure and nobody
\* else looking at the file in between; consolidate_leads returns.
SaveMaster(p) ==
    /\ pc[p] = "persist"
    /\ master_file' = [exists |-> TRUE, lines |-> ToCsv(combined_df[p])]
    /\ offset' = [offset EXCEPT ![p] = Len(ToCsv(combined_df[p]))]
    /\ wrote' = [wrote EXCEPT ![p] = TRUE]
    /\ last_writer' = p
    /\ pc' = [pc EXCEPT ![p] = "done"]
    /\ UNCHANGED <<download_dir, csv_files, master_df, combined_df, before,
                   rerun, runs, part_vars, sync, ops_vars>>

\* to_csv opens master_file for writing: the file is created or truncated.
OpenMaster(p) ==
    /\ pc[p] = "persist"
    /\ master_file' = [exists |-> TRUE, lines |-> <<>>]
    /\ wrote' = [wrote EXCEPT ![p] = TRUE]
    /\ last_writer' = p
    /\ pc' = [pc EXCEPT ![p] = "writing"]
    /\ UNCHANGED <<download_dir, csv_files, master_df, combined_df, offset,
                   before, rerun, runs, part_vars, sync, ops_vars>>

\* to_csv cannot open master_file (permissions, missing directory); the
\* exception leaves consolidate_leads and main.
OpenFails(p) ==
    /\ pc[p] = "persist"
    /\ wrote' = [wrote EXCEPT ![p] = TRUE]
    /\ pc' = [pc EXCEPT ![p] = "write_error"]
    /\ UNCHANGED <<master_file, download_dir, csv_files, master_df, combined_df,
                   offset, before, rerun, last_writer, runs, part_vars, sync, ops_vars>>

\* A line nobody wrote, below a write past the end of the file.
Hole == [c \in Cols |-> "NUL"]

\* A write of one line at a handle's offset.
WriteAt(lines, off, line) ==
    IF off < Len(lines) THEN [lines EXCEPT ![off + 1] = line]
    ELSE lines \o [i \in 1..(off - Len(lines)) |-> Hole] \o <<line>>

\* to_csv writes the next line of the frame through its handle; after the
\* last line it closes the file and consolidate_leads returns.
WriteLine(p) ==
    /\ pc[p] = "writing"
    /\ LET out == ToCsv(combined_df[p])
       IN  /\ master_file' = [master_file EXCEPT
                  !.lines = WriteAt(master_file.lines, offset[p], out[offset[p] + 1])]
           /\ offset' = [offset EXCEPT ![p] = offset[p] + 1]
           /\ pc' = [pc EXCEPT ![p] = IF offset[p] + 1 = Len(out) THEN "done" ELSE "writing"]
    /\ last_writer' = p
    /\ UNCHANGED <<download_dir, csv_files, master_df, combined_df, before,
                   wrote, rerun, runs, part_vars, sync, ops_vars>>

\* A write of to_csv raises (disk full, I/O error): the lines written so far
\* stay, and the exception leaves consolidate_leads and main.
WriteFails(p) ==
    /\ pc[p] = "writing"
    /\ pc' = [pc EXCEPT ![p] = "write_error"]
    /\ UNCHANGED <<master_file, download_dir, csv_files, master_df, combined_df,
                   offset, before, wrote, rerun, last_writer, runs, part_vars, sync, ops_vars>>

\* A run of main in which no ledger I/O fails.
Run(p) ==
    \/ LoadMaster(p)
    \/ MergeLeads(p)
    \/ SaveMaster(p)

\* A run of main with to_csv's open and writes as single steps, any of which
\* may fail, as may the read of the master file.
RunIO(p) ==
    \/ LoadMaster(p)
    \/ LoadFails(p)
    \/ MergeLeads(p)
    \/ OpenMaster(p)
    \/ OpenFails(p)
    \/ WriteLine(p)
    \/ WriteFails(p)

\* One instance of the script, run again and again.
Next == ExportLeads("main1") \/ Run("main1")

Spec == Init /\ [][Next]_vars

\* One instance, with the file operations of a run as separate steps.
NextIO == ExportLeads("main1") \/ RunIO("main1")

SpecIO == Init /\ [][NextIO]_vars

\* Two instances on the same master file and download directory.
NextConc == \E p \in Procs : ExportLeads(p) \/ RunIO(p)

SpecConc == Init /\ [][NextConc]_vars

\* Rows for the merge on its own: two leads of the same day with different
\* resources, a later lead, and two leads whose dates do not parse.
MergeRows ==
    {Lead(Str("a@x.com"), "2024-01-01", Str("R1"), "OldCo"),
     Lead(Str("a@x.com"), "2024-01-01", Str("R2"), "OldCo"),
     Lead(Str("a@x.com"), "2024-01-02", Str("R1"), "OldCo"),
     Lead(Str("a@x.com"), "soon", Str("R1"), "OldCo"),
     Lead(Str("a@x.com"), "later", Str("R1"), "OldCo")}

\* consolidate_leads as a function of the master file and of one export of
\* DOWNLOAD_DIR, both given: the runs of main1 on a directory that does not
\* change, the second run loading what the first persisted.
InitMerge ==
    /\ master_file \in {NoFile, EarlierLedger}
    /\ download_dir \in
          {<<[kind |-> "table", rows |-> rs]>> :
              rs \in UNION {[1..n -> MergeRows] : n \in 1..MaxLeads}}
    /\ csv_files = <<>>
    /\ pc = [p \in Procs |-> "idle"]
    /\ master_df = [p \in Procs |-> <<>>]
    /\ combined_df = [p \in Procs |-> <<>>]
    /\ offset = [p \in Procs |-> 0]
    /\ before = [p \in Procs |-> NoFile]
    /\ wrote = [p \in Procs |-> FALSE]
    /\ rerun = [p \in Procs |-> FALSE]
    /\ last_writer = "nobody"
    /\ runs = 0
    /\ PartsIdle
    /\ SyncIdle
    /\ OpsIdle

NextMerge == Run("main1")

SpecMerge == InitMerge /\ [][NextMerge]_vars

\* ------------------------------------------ main with its sync stages

\* How a sync stage may end: its package is not installed, its configuration
\* is missing, it raised inside its try (caught and printed), or it pushed
\* the master file it read.
SyncOutcomes == {"unavailable", "skipped", "failed", "synced"}

\* pd.read_csv(master_file) of a sync stage succeeds.
Readable(file) == file.exists /\ file.lines # <<>>

\* sync_to_google_sheets that writes the table it pushed back to master_file.
SyncToGoogleSheetsRewriting(p) ==
    /\ pc[p] = "done"
    /\ \E outcome \in SyncOutcomes :
          /\ outcome = "synced" => Readable(master_file)
          /\ sync' = [sheets |-> outcome, hubspot |-> "none", ledger |-> master_file,
                      run |-> runs]
          /\ master_file' = IF outcome = "synced"
                            THEN [exists |-> TRUE, lines |-> <<Header>>]
                            ELSE master_file
    /\ pc' = [pc EXCEPT ![p] = "sheets_done"]
    /\ UNCHANGED <<download_dir, csv_files, master_df, combined_df, offset,
                   before, wrote, rerun, last_writer, runs, part_vars, ops_vars>>

\* sync_to_google_sheets(MASTER_FILE), called when consolidate_leads has
\* returned: it returns early, or reads the master file and pushes it, any
\* exception caught; the master file is only read.
SyncToGoogleSheets(p) ==
    /\ pc[p] = "done"
    /\ \E outcome \in SyncOutcomes :
          /\ outcome = "synced" => Readable(master_file)
          /\ sync' = [sheets |-> outcome, hubspot |-> "none", ledger |-> master_file,
                      run |-> runs]
    /\ pc' = [pc EXCEPT ![p] = "sheets_done"]
    /\ UNCHANGED <<ledger_vars_but_pc, part_vars, ops_vars>>

\* sync_to_hubspot(MASTER_FILE), called when sync_to_google_sheets has
\* returned; main then returns.
SyncToHubspot(p) ==
    /\ pc[p] = "sheets_done"
    /\ \E outcome \in SyncOutcomes :
          /\ outcome = "synced" => Readable(master_file)
          /\ sync' = [sync EXCEPT !.hubspot = outcome]
    /\ pc' = [pc EXCEPT ![p] = "returned"]
    /\ UNCHANGED <<ledger_vars_but_pc, part_vars, ops_vars>>

\* main from its start to the load of consolidate_leads, begun when the run
\* before it has left main.
MainLoad(p) == pc[p] # "done" /\ LoadMaster(p)

MainLoadFails(p) == pc[p] # "done" /\ LoadFails(p)

\* The runs of main on a download directory that holds nothing or one
\* export, with or without a master file.
InitMain ==
    /\ master_file \in {NoFile, EarlierLedger}
    /\ download_dir \in
          {<<>>} \cup
          {<<[kind |-> "table", rows |-> rs]>> :
              rs \in UNION {[1..n -> ExportRows] : n \in 1..MaxLeads}}
    /\ csv_files = <<>>
    /\ pc = [p \in Procs |-> "idle"]
    /\ master_df = [p \in Procs |-> <<>>]
    /\ combined_df = [p \in Procs |-> <<>>]
    /\ offset = [p \in Procs |-> 0]
    /\ before = [p \in Procs |-> NoFile]
    /\ wrote = [p \in Procs |-> FALSE]
    /\ rerun = [p \in Procs |-> FALSE]
    /\ last_writer = "nobody"
    /\ runs = 0
    /\ PartsIdle
    /\ SyncIdle
    /\ OpsIdle

NextMain ==
    \/ MainLoad("main1")
    \/ MainLoadFails("main1")
    \/ MergeLeads("main1")
    \/ OpenMaster("main1")
    \/ OpenFails("main1")
    \/ WriteLine("main1")
    \/ WriteFails("main1")
    \/ SyncToGoogleSheets("main1")
    \/ SyncToHubspot("main1")

SpecMain == InitMain /\ [][NextMain]_vars

\* ------------------------------------------------- the normalizer alone

\* The ledger and the runs on it, at rest.
LedgerIdle ==
    /\ master_file = NoFile
    /\ download_dir = <<>>
    /\ csv_files = <<>>
    /\ pc = [p \in Procs |-> "idle"]
    /\ master_df = [p \in Procs |-> <<>>]
    /\ combined_df = [p \in Procs |-> <<>>]
    /\ offset = [p \in Procs |-> 0]
    /\ before = [p \in Procs |-> NoFile]
    /\ wrote = [p \in Procs |-> FALSE]
    /\ rerun = [p \in Procs |-> FALSE]
    /\ last_writer = "nobody"
    /\ runs = 0

\* Rows of a CSV of many rows.
MaxRows == 2

\* The column labels the normalizer reads, by the lead field they feed.
EmailLabels == {"User Email", "email"}

FieldLabels ==
    {{"User Name", "name"}, {"User Company", "company"},
     {"User Telephone", "telephone", "phone"}, {"User Country", "country"},
     {"User State", "state"}, {"User City", "city"}, {"User Address", "address"},
     {"Downloaded On", "downloaded_on"},
     {"Part Number", "White Paper Title", "Product Url"}}

\* The cells a column of an export may hold: missing, a text, the text with
\* blanks around it; for an email column also a blank text, for the part
\* number a number, for the URL texts with and without a path.
CellsOf(c) ==
    IF c = "User Email"
    THEN {NaN, Str(" "), Str("a@x.com"), Str(" a@x.com ")}
    ELSE IF c = "email"
    THEN {NaN, Str(" "), Str("b@y.com"), Str(" b@y.com ")}
    ELSE IF c = "Part Number"
    THEN {NaN, Str("R1"), Str(" R1 "), Int("1550"), Float("1550")}
    ELSE IF c = "Product Url"
    THEN {NaN, Str("https://site.com/products/laser-42"),
          Str(" https://site.com/products/laser-42 "),
          Str("https://site.com/products/ laser-42"),
          Str("https://site.com/products/"), Str("laser-42")}
    ELSE {NaN, Str(c \o " 1"), Str(" " \o c \o " 1 ")}

\* A row with one more column.
WithColumn(row, c, cell) == [k \in DOMAIN row \cup {c} |-> IF k = c THEN cell ELSE row[k]]

\* The rows a table with the column labels S may hold.
RECURSIVE RowsOver(_)
RowsOver(S) ==
    IF S = {} THEN {[k \in {} |-> NaN]}
    ELSE LET c == CHOOSE x \in S : TRUE
         IN  {WithColumn(r, c, cell) : r \in RowsOver(S \ {c}), cell \in CellsOf(c)}

\* Tables of one row: any of the email columns alone, or the first email
\* column, filled, with any of the columns that feed one other field.
OneRowTables ==
    {<<r>> : r \in UNION {RowsOver(E) : E \in SUBSET EmailLabels}}
    \cup {<<WithColumn(r, "User Email", Str("a@x.com"))>> :
             r \in UNION {RowsOver(G) : G \in UNION {SUBSET F \ {{}} : F \in FieldLabels}}}

\* Tables of up to MaxRows rows with one email column, or with the other
\* email column and a part number column.
ManyRowTables ==
    UNION {[1..n -> RowsOver({"User Email"})] : n \in 0..MaxRows}
    \cup UNION {[1..n -> {WithColumn(r, "Part Number", Str("R1")) : r \in RowsOver({"email"})}] :
                  n \in 1..MaxRows}

\* Names of the CSV files of DOWNLOAD_DIR.
FileNames ==
    {"leads.csv", "Datasheet_Leads.csv", "data_sheet.csv", "WHITEPAPER datasheet.csv",
     "whitepaper_export.csv", "Quotation_whitepaper.csv", "quotation_inquiry.csv",
     "contacts_quotation.csv", "Contact Inquiry.csv", "inquiry_2024.csv",
     "contact.data.csv"}

\* datetime.now() as strftime gives it.
Clock == {"2024-01-03 09:00:00", "2024-01-03 09:00:01"}

\* One CSV of DOWNLOAD_DIR in the loop of consolidate_leads: a file that
\* cannot be parsed, or a table as pd.read_csv returns it.
InitNorm ==
    /\ LedgerIdle
    /\ SyncIdle
    /\ OpsIdle
    /\ csv_file \in
          {[name |-> n, ok |-> FALSE, df |-> <<>>] : n \in FileNames}
          \cup {[name |-> "leads.csv", ok |-> TRUE, df |-> t] : t \in OneRowTables}
          \cup {[name |-> n, ok |-> TRUE, df |-> t] : n \in FileNames, t \in ManyRowTables}
    /\ normalized_data = <<>>
    /\ source_type_col = <<>>
    /\ printed = <<>>
    /\ stage = "csv"

\* The leads appended to normalized_data: those with an email.
Emitted(leads) == SelectIdx(leads, {i \in DOMAIN leads : leads[i].email.v # ""})

\* The body of the loop over csv_files for one file: source type from the
\* stem, read, a lead per row, the leads with an email kept; the count of the
\* leads is printed when there is one, and an exception of the read is caught
\* and printed.
NormalizeCsv ==
    /\ stage = "csv"
    /\ stage' = "normalized"
    /\ IF csv_file.ok
       THEN \E now \in Clock :
               LET leads == [i \in DOMAIN csv_file.df |->
                               NormalizeLead(csv_file.df[i], SourceType(Stem(csv_file.name)),
                                             csv_file.name, now)]
               IN  /\ normalized_data' = Emitted(leads)
                   /\ printed' =
                         IF Emitted(leads) # <<>>
                         THEN Append(printed, [what |-> "processed", of |-> csv_file.name,
                                               n |-> Len(Emitted(leads))])
                         ELSE printed
       ELSE /\ normalized_data' = <<>>
            /\ printed' = Append(printed, [what |-> "error", of |-> csv_file.name, n |-> 0])
    /\ UNCHANGED <<ledger_vars, csv_file, source_type_col, sync, ops_vars>>

NextNorm == NormalizeCsv

SpecNorm == InitNorm /\ [][NextNorm]_vars

\* ---------------------------------------------------- the summary alone

\* Rows of the frame the summary is made of.
MaxLedger == 3

SourceTypes == {"Datasheet", "Whitepaper", "Quotation", "Contact Inquiry", "Other"}

\* a == b on two cells, as pandas compares them: a missing value equals none.
CellEq(a, b) == a.k # "nan" /\ b.k # "nan" /\ a = b

\* Series.unique(): the values of a column in order of first appearance.
Unique(col) ==
    SelectIdx(col, {i \in DOMAIN col : \A j \in 1..(i - 1) : col[j] # col[i]})

\* The length of the whole frame, whatever the source type.
LenOfFrame(col, value) == Len(col)

\* len(combined_df[combined_df['source_type'] == source_type])
LenOfType(col, value) == Cardinality({i \in DOMAIN col : CellEq(col[i], value)})

\* combined_df['source_type'] of a frame consolidate_leads has just saved.
InitSummary ==
    /\ LedgerIdle
    /\ SyncIdle
    /\ OpsIdle
    /\ csv_file = NoCsv
    /\ normalized_data = <<>>
    /\ source_type_col \in
          UNION {[1..n -> {Str(t) : t \in SourceTypes}] : n \in 1..MaxLedger}
    /\ printed = <<>>
    /\ stage = "saved"

\* The summary report at the end of consolidate_leads: one line per value of
\* the source_type column, with the number of rows that have it.
Summarize ==
    /\ stage = "saved"
    /\ stage' = "summarized"
    /\ printed' = printed \o
          [i \in DOMAIN Unique(source_type_col) |->
              [what |-> "summary", of |-> Unique(source_type_col)[i].v,
               n |-> LenOfType(source_type_col, Unique(source_type_col)[i])]]
    /\ UNCHANGED <<ledger_vars, csv_file, normalized_data, source_type_col, sync, ops_vars>>

NextSummary == Summarize

SpecSummary == InitSummary /\ [][NextSummary]_vars

\* ------------------------------------------------- the retention sweep

\* Entries of the directory the sweep is run on.
MaxEntries == 3

\* keep_days * 24 * 60 * 60: the seconds of a day.
SecondsPerDay == 86400

\* What download_dir.glob("*") may yield: a regular file, a directory, or a
\* symbolic link whose target is gone.
EntryKinds == {"file", "dir", "dangling"}

\* time.time() - (keep_days * 24 * 60 * 60)
CutoffTime(now, days) == now - (days * SecondsPerDay)

\* file_path.stat() raises for the entry (FileNotFoundError).
StatRaises(entry) == entry.kind = "dangling"

\* file_path.unlink() raises for the entry (a directory is not unlinked).
UnlinkRaises(entry) == entry.kind = "dir"

\* The loop of cleanup_old_files from entry i on: stat, compare, unlink and
\* count; an exception of stat or of unlink leaves the loop and the function.
RECURSIVE Sweep(_, _, _, _, _)
Sweep(listing, i, disk, count, cutoff) ==
    IF i > Len(listing)
    THEN [on_disk |-> disk, removed_count |-> count, raised |-> FALSE]
    ELSE IF StatRaises(listing[i])
    THEN [on_disk |-> disk, removed_count |-> count, raised |-> TRUE]
    ELSE IF listing[i].st_mtime < cutoff
    THEN IF UnlinkRaises(listing[i])
         THEN [on_disk |-> disk, removed_count |-> count, raised |-> TRUE]
         ELSE Sweep(listing, i + 1, disk \ {i}, count + 1, cutoff)
    ELSE Sweep(listing, i + 1, disk, count, cutoff)

\* Last-modified times around the cutoffs of the model, the clock being at
\* the end of day 8: a second before, at, and a second after the cutoff.
Mtimes ==
    {1 * SecondsPerDay - 1, 1 * SecondsPerDay, 1 * SecondsPerDay + 1,
     7 * SecondsPerDay - 1, 7 * SecondsPerDay}

\* A directory of up to MaxEntries entries, and a call of cleanup_old_files
\* with keep_days 7 (the default) or 1.
InitSweep ==
    /\ LedgerIdle
    /\ PartsIdle
    /\ SyncIdle
    /\ dir_listing \in
          UNION {[1..n -> [st_mtime : Mtimes, kind : EntryKinds]] : n \in 0..MaxEntries}
    /\ on_disk = DOMAIN dir_listing
    /\ time_now = 8 * SecondsPerDay
    /\ keep_days \in {1, 7}
    /\ removed_count = 0
    /\ sweep_pc = "called"
    /\ IngestIdle
    /\ HubIdle
    /\ SheetIdle
    /\ DriverIdle

\* cleanup_old_files(download_dir, keep_days) returns.
CleanupReturns ==
    /\ sweep_pc = "called"
    /\ LET end == Sweep(dir_listing, 1, on_disk, 0, CutoffTime(time_now, keep_days))
       IN  /\ ~end.raised
           /\ on_disk' = end.on_disk
           /\ removed_count' = end.removed_count
    /\ sweep_pc' = "returned"
    /\ UNCHANGED <<ledger_vars, part_vars, sync, dir_listing, time_now, keep_days,
                   ingest_vars, hub_vars, sheet_vars, driver_vars>>

\* cleanup_old_files(download_dir, keep_days) raises: nothing in it catches
\* the exception of stat or of unlink.
CleanupRaises ==
    /\ sweep_pc = "called"
    /\ LET end == Sweep(dir_listing, 1, on_disk, 0, CutoffTime(time_now, keep_days))
       IN  /\ end.raised
           /\ on_disk' = end.on_disk
           /\ removed_count' = end.removed_count
    /\ sweep_pc' = "raised"
    /\ UNCHANGED <<ledger_vars, part_vars, sync, dir_listing, time_now, keep_days,
                   ingest_vars, hub_vars, sheet_vars, driver_vars>>

NextSweep == CleanupReturns \/ CleanupRaises

SpecSweep == InitSweep /\ [][NextSweep]_vars

\* ------------------------------- consolidate_leads, leads of all columns

\* CSV files of the download directory.
MaxCsvs == 2

\* The keys of a lead dict in the order they are set, which is the order of
\* the columns of pd.DataFrame(all_leads).
LeadKeys ==
    <<"email", "name", "company", "phone", "country", "state", "city", "address",
      "date", "resource", "source_type", "source_file", "imported_at">>

SeqToSet(seq) == {seq[i] : i \in DOMAIN seq}

\* pd.DataFrame(all_leads)
DataFrame(leads) == [columns |-> LeadKeys, rows |-> leads]

\* pd.read_csv(master_file): the columns are the header, each column is
\* converted by the dtype inferred for it.
ReadFrame(file) ==
    [columns |-> file.header,
     rows |-> [i \in DOMAIN file.lines |->
                 [c \in SeqToSet(file.header) |->
                     ReadCell(file.lines[i][c],
                              ColumnKind([j \in DOMAIN file.lines |-> file.lines[j][c]]))]]]

\* frame.to_csv(master_file, index=False): the header is the columns, a line
\* has the text of each cell.
WriteFrame(frame) ==
    [exists |-> TRUE,
     header |-> frame.columns,
     lines |-> [i \in DOMAIN frame.rows |->
                  [c \in SeqToSet(frame.columns) |-> CellText(frame.rows[i][c])]]]

\* The columns of pd.concat: those of the first frame, then those the second
\* frame adds.
ConcatColumns(a, b) == a \o SelectIdx(b, {i \in DOMAIN b : b[i] \notin SeqToSet(a)})

\* A row over the columns cols, missing where it had no value.
Reindex(row, cols) == [c \in SeqToSet(cols) |-> IF c \in DOMAIN row THEN row[c] ELSE NaN]

\* pd.concat([master_df, new_leads_df], ignore_index=True), or new_leads_df
\* alone when master_df.empty.
ConcatFrames(master, leads) ==
    IF master.rows = <<>> \/ master.columns = <<>> THEN leads
    ELSE LET cols == ConcatColumns(master.columns, leads.columns)
         IN  [columns |-> cols,
              rows |-> [i \in DOMAIN master.rows |-> Reindex(master.rows[i], cols)]
                       \o [i \in DOMAIN leads.rows |-> Reindex(leads.rows[i], cols)]]

\* frame[label] = values: a new column goes last.
AssignColumn(frame, label, values) ==
    [columns |-> IF label \in SeqToSet(frame.columns) THEN frame.columns
                 ELSE Append(frame.columns, label),
     rows |-> [i \in DOMAIN frame.rows |-> WithColumn(frame.rows[i], label, values[i])]]

\* drop(label, axis=1) that drops nothing.
DropNothing(frame, label) == frame

\* frame.drop(label, axis=1)
DropColumn(frame, label) ==
    [columns |-> SelectIdx(frame.columns,
                           {i \in DOMAIN frame.columns : frame.columns[i] # label}),
     rows |-> [i \in DOMAIN frame.rows |->
                 [c \in DOMAIN frame.rows[i] \ {label} |-> frame.rows[i][c]]]]

\* The frames consolidate_leads may save for the leads: concat, drop of the
\* duplicates, date_parsed added, sort, date_parsed dropped.
SavedFrames(master, leads) ==
    LET combined == ConcatFrames(master, DataFrame(leads))
        deduped == [combined EXCEPT !.rows = DropDuplicates(combined.rows)]
        parsed == AssignColumn(deduped, "date_parsed",
                               [i \in DOMAIN deduped.rows |->
                                   [k |-> "time", v |-> ParseDate(deduped.rows[i].date)]])
    IN  {DropColumn([parsed EXCEPT !.rows = SortValues(parsed.rows, perm)], "date_parsed") :
            perm \in SortOrders(deduped.rows)}

\* datetime.now() of the run, as strftime gives it.
IngestClock == "2024-01-03 09:00:00"

\* The leads of rows 1..n of a CSV, before the check of the email.
LeadsUpTo(file, n) ==
    [i \in 1..n |-> NormalizeLead(file.df[i], SourceType(Stem(file.name)), file.name,
                                  IngestClock)]

\* The body of the try for one CSV raises: pd.read_csv cannot parse the
\* file, or an exception comes up at the row file.fault.
Raises(file) == ~file.ok \/ file.fault > 0

\* normalized_data when the body of the try ends: the leads with an email of
\* all rows, or of the rows before the one that raised.
NormalizedData(file) ==
    IF ~file.ok THEN <<>>
    ELSE IF file.fault > 0 THEN Emitted(LeadsUpTo(file, file.fault - 1))
    ELSE Emitted(LeadsUpTo(file, Len(file.df)))

\* The except that keeps what the file had given before it raised.
AfterExceptKeepsRows(leads, file) == leads \o NormalizedData(file)

\* all_leads after the except of the loop: the handler prints, all_leads is
\* as it was.
AfterExcept(leads, file) == leads

\* all_leads after the body of the try for one CSV.
AfterFile(leads, file) ==
    IF Raises(file) THEN AfterExcept(leads, file) ELSE leads \o NormalizedData(file)

\* One row of an export: an email column, a date and a part number.
ExportRow(email, date) ==
    [c \in {"User Email", "Downloaded On", "Part Number"} |->
        IF c = "User Email" THEN email
        ELSE IF c = "Downloaded On" THEN Str(date) ELSE Str("R1")]

\* The rows of an export in the order of its sheet: a lead, a row without an
\* email, then leads of another address.
IngestRow(i) ==
    IF i = 1 THEN ExportRow(Str(" a@x.com "), "2024-01-01")
    ELSE IF i = 2 THEN ExportRow(NaN, "2024-01-01")
    ELSE ExportRow(Str("b@y.com"), "2024-01-01")

\* The CSV files of a directory: a file that cannot be parsed, or a table of
\* up to MaxRows rows whose processing goes through (fault 0) or raises at
\* one of its rows.
IngestFiles(name) ==
    {[name |-> name, ok |-> FALSE, df |-> <<>>, fault |-> 0]}
    \cup {[name |-> name, ok |-> TRUE, df |-> [i \in 1..n |-> IngestRow(i)], fault |-> f] :
            n \in 0..MaxRows, f \in 0..MaxRows}

IngestNames ==
    [i \in 1..(MaxCsvs + 1) |->
        IF i = 1 THEN "Datasheet_Leads.csv"
        ELSE IF i = 2 THEN "whitepaper_export.csv" ELSE "leads.csv"]

\* The master file an earlier run wrote for a lead of another day.
EarlierLedgerAll ==
    WriteFrame(DataFrame(<<NormalizeLead(ExportRow(Str("a@x.com"), "2024-01-02"),
                                         "Datasheet", "Datasheet_Old.csv",
                                         "2024-01-02 09:00:00")>>))

\* consolidate_leads is called on a directory of up to MaxCsvs CSV files,
\* with or without a master file.
InitIngest ==
    /\ LedgerIdle
    /\ PartsIdle
    /\ SyncIdle
    /\ SweepIdle
    /\ ledger \in {NoLedger, EarlierLedgerAll}
    /\ ledger_df = EmptyFrame
    /\ csv_queue \in
          UNION {{q \in [1..n -> UNION {IngestFiles(IngestNames[i]) : i \in 1..n}] :
                     \A i \in 1..n : q[i].name = IngestNames[i] /\ q[i].fault <= Len(q[i].df)} :
                   n \in 0..MaxCsvs}
    /\ files_done = <<>>
    /\ collected_leads = <<>>
    /\ ingest_pc = "called"
    /\ HubIdle
    /\ SheetIdle
    /\ DriverIdle

\* The start of consolidate_leads: the master file is loaded when there is
\* one.
LoadLedger ==
    /\ ingest_pc = "called"
    /\ ledger_df' = IF ledger.exists THEN ReadFrame(ledger) ELSE EmptyFrame
    /\ ingest_pc' = "loop"
    /\ UNCHANGED <<ledger_vars, part_vars, sync, sweep_vars, hub_vars, sheet_vars, driver_vars,
                   ledger, csv_queue,
                   files_done, collected_leads>>

\* One turn of the loop over csv_files: the body of the try, and the except
\* when it raises.
ProcessCsv ==
    /\ ingest_pc = "loop"
    /\ csv_queue # <<>>
    /\ collected_leads' = AfterFile(collected_leads, Head(csv_queue))
    /\ files_done' = Append(files_done, Head(csv_queue))
    /\ csv_queue' = Tail(csv_queue)
    /\ UNCHANGED <<ledger_vars, part_vars, sync, sweep_vars, hub_vars, sheet_vars, driver_vars,
                   ledger, ledger_df,
                   ingest_pc>>

\* The loop is over and no file gave a lead: consolidate_leads returns.
NoNewLeads ==
    /\ ingest_pc = "loop"
    /\ csv_queue = <<>>
    /\ collected_leads = <<>>
    /\ ingest_pc' = "returned"
    /\ UNCHANGED <<ledger_vars, part_vars, sync, sweep_vars, hub_vars, sheet_vars, driver_vars,
                   ledger, ledger_df,
                   csv_queue, files_done, collected_leads>>

\* The loop is over with leads: they are merged into the master and the
\* master file is written.
SaveLedger ==
    /\ ingest_pc = "loop"
    /\ csv_queue = <<>>
    /\ collected_leads # <<>>
    /\ \E frame \in SavedFrames(ledger_df, collected_leads) : ledger' = WriteFrame(frame)
    /\ ingest_pc' = "saved"
    /\ UNCHANGED <<ledger_vars, part_vars, sync, sweep_vars, hub_vars, sheet_vars, driver_vars,
                   ledger_df, csv_queue,
                   files_done, collected_leads>>

NextIngest == LoadLedger \/ ProcessCsv \/ NoNewLeads \/ SaveLedger

SpecIngest == InitIngest /\ [][NextIngest]_vars

\* ------------------------------------------------------ the HubSpot syncs

\* Rows of the master file, or of the sheet, a HubSpot sync goes through.
MaxContacts == 2

\* How HubSpot answers a call: it serves it, or refuses it for the rate
\* limit (an ApiException whose text holds 429).
ApiOutcomes == {"ok", "429"}

\* How HubSpot answers a write: a create for an email that has a contact is
\* refused (409 Conflict).
WriteOutcomes(op, exists) == IF op = "create" /\ exists THEN {"409"} ELSE ApiOutcomes

\* The email cells of the rows: none, blank, an email plain or with blanks
\* around it, another email.
HubEmails == {"", " ", "a@x.com", " a@x.com ", "b@y.com"}

\* The entry of hub_log for a row.
RowLog(email, existed, calls, errors) ==
    [email |-> email, existed |-> existed, calls |-> calls, errors |-> errors]

\* What the search of a contact by email finds: response.results is not
\* empty when the search is served and the email has a contact.
Found(search, exists) == search = "ok" /\ exists

\* A HubSpot sync is called: sync_to_hubspot on a master file it can read,
\* or ContactSyncer.sync on a sheet it can fetch, of up to MaxContacts rows.
InitHub ==
    /\ LedgerIdle
    /\ PartsIdle
    /\ SyncIdle
    /\ SweepIdle
    /\ IngestIdle
    /\ hub_client \in {"sync_to_hubspot", "ContactSyncer"}
    /\ hub_rows \in UNION {[1..n -> HubEmails] : n \in 0..MaxContacts}
    /\ hub_contacts \in SUBSET {"a@x.com", "b@y.com"}
    /\ hub_counts = NoCounts
    /\ hub_log = <<>>
    /\ hub_pc = "called"
    /\ SheetIdle
    /\ DriverIdle

\* sync_to_hubspot up to its loop: client, read_csv, fillna(''), counters.
HubspotStart ==
    /\ hub_pc = "called"
    /\ hub_client = "sync_to_hubspot"
    /\ hub_pc' = "loop"
    /\ UNCHANGED <<ledger_vars, part_vars, sync, sweep_vars, ingest_vars, sheet_vars,
                   driver_vars, hub_client,
                   hub_rows, hub_contacts, hub_counts, hub_log>>

\* One turn of the loop of sync_to_hubspot: a row without an email is passed
\* over; else the contact is searched, then updated or created, and counted;
\* an exception of the search or of the write is counted as one error.
HubspotRow ==
    /\ hub_pc = "loop"
    /\ hub_client = "sync_to_hubspot"
    /\ hub_rows # <<>>
    /\ hub_rows' = Tail(hub_rows)
    /\ LET email == Strip(Head(hub_rows))
           exists == email \in hub_contacts
       IN  IF email = ""
           THEN /\ hub_log' = Append(hub_log, RowLog(email, exists, <<>>, 0))
                /\ UNCHANGED <<hub_counts, hub_contacts>>
           ELSE \E search \in ApiOutcomes :
                   IF search # "ok"
                   THEN /\ hub_counts' = [hub_counts EXCEPT !.errors = @ + 1]
                        /\ hub_log' = Append(hub_log,
                              RowLog(email, exists, <<[op |-> "search", result |-> search]>>, 1))
                        /\ UNCHANGED hub_contacts
                   ELSE LET op == IF Found(search, exists) THEN "update" ELSE "create"
                        IN  \E write \in WriteOutcomes(op, exists) :
                               /\ hub_log' = Append(hub_log,
                                     RowLog(email, exists,
                                            <<[op |-> "search", result |-> search],
                                              [op |-> op, result |-> write]>>,
                                            IF write = "ok" THEN 0 ELSE 1))
                               /\ hub_counts' =
                                     IF write # "ok"
                                     THEN [hub_counts EXCEPT !.errors = @ + 1]
                                     ELSE IF op = "update"
                                     THEN [hub_counts EXCEPT !.updated = @ + 1,
                                                             !.success = @ + 1]
                                     ELSE [hub_counts EXCEPT !.created = @ + 1,
                                                             !.success = @ + 1]
                               /\ hub_contacts' =
                                     IF write = "ok" THEN hub_contacts \cup {email}
                                     ELSE hub_contacts
    /\ UNCHANGED <<ledger_vars, part_vars, sync, sweep_vars, ingest_vars, sheet_vars,
                   driver_vars, hub_client,
                   hub_pc>>

\* ContactSyncer.sync up to its loop: get_sheet_contacts keeps the rows whose
\* email cell is not empty; with none of them sync returns.
SyncerStart ==
    /\ hub_pc = "called"
    /\ hub_client = "ContactSyncer"
    /\ hub_rows' = SelectIdx(hub_rows, {i \in DOMAIN hub_rows : hub_rows[i] # ""})
    /\ hub_pc' = IF hub_rows' = <<>> THEN "done" ELSE "loop"
    /\ UNCHANGED <<ledger_vars, part_vars, sync, sweep_vars, ingest_vars, sheet_vars,
                   driver_vars, hub_client,
                   hub_contacts, hub_counts, hub_log>>

\* One turn of the loop of ContactSyncer.sync, create_or_update_contact and
\* get_existing_contact in it: a contact without an email is an error; a
\* search that fails is logged and gives None; the contact is updated when
\* an id was found and created when not; an exception of the write is an
\* error.
SyncerRow ==
    /\ hub_pc = "loop"
    /\ hub_client = "ContactSyncer"
    /\ hub_rows # <<>>
    /\ hub_rows' = Tail(hub_rows)
    /\ LET email == Strip(Head(hub_rows))
           exists == email \in hub_contacts
       IN  IF email = ""
           THEN /\ hub_log' = Append(hub_log, RowLog(email, exists, <<>>, 1))
                /\ hub_counts' = [hub_counts EXCEPT !.errors = @ + 1]
                /\ UNCHANGED hub_contacts
           ELSE \E search \in ApiOutcomes :
                   LET op == IF Found(search, exists) THEN "update" ELSE "create"
                   IN  \E write \in WriteOutcomes(op, exists) :
                          /\ hub_log' = Append(hub_log,
                                RowLog(email, exists,
                                       <<[op |-> "search", result |-> search],
                                         [op |-> op, result |-> write]>>,
                                       IF write = "ok" THEN 0 ELSE 1))
                          /\ hub_counts' =
                                IF write = "ok"
                                THEN [hub_counts EXCEPT !.success = @ + 1]
                                ELSE [hub_counts EXCEPT !.errors = @ + 1]
                          /\ hub_contacts' =
                                IF write = "ok" THEN hub_contacts \cup {email}
                                ELSE hub_contacts
    /\ UNCHANGED <<ledger_vars, part_vars, sync, sweep_vars, ingest_vars, sheet_vars,
                   driver_vars, hub_client,
                   hub_pc>>

\* The loop is over: the counts are printed, or logged, and the sync returns.
HubDone ==
    /\ hub_pc = "loop"
    /\ hub_rows = <<>>
    /\ hub_pc' = "done"
    /\ UNCHANGED <<ledger_vars, part_vars, sync, sweep_vars, ingest_vars, sheet_vars,
                   driver_vars, hub_client,
                   hub_rows, hub_contacts, hub_counts, hub_log>>

NextHub == HubspotStart \/ HubspotRow \/ SyncerStart \/ SyncerRow \/ HubDone

SpecHub == InitHub /\ [][NextHub]_vars

\* ------------------------------------- sync_to_google_sheets, call by call

\* The leads of a master file, by their place in all_leads: one address
\* each, downloads of one day.
SheetLead(i) ==
    NormalizeLead(ExportRow(Str(IF i = 1 THEN "a@x.com"
                                ELSE IF i = 2 THEN "b@y.com"
                                ELSE IF i = 3 THEN "c@z.com" ELSE "d@w.com"),
                            "2024-01-01"),
                  "Datasheet", "Datasheet_Leads.csv", IngestClock)

\* The master files a run of consolidate_leads may have written for up to
\* MaxLedger leads.
SavedLedgers ==
    UNION {{WriteFrame(f) : f \in SavedFrames(EmptyFrame, [i \in 1..n |-> SheetLead(i)])} :
             n \in 1..MaxLedger}

\* df.fillna(''): a missing value becomes the empty text.
FillNa(frame) ==
    [frame EXCEPT !.rows =
        [i \in DOMAIN frame.rows |->
            [c \in DOMAIN frame.rows[i] |->
                IF frame.rows[i][c].k = "nan" THEN Str("") ELSE frame.rows[i][c]]]]

\* [df.columns.tolist()] + df.values.tolist(): the header row, then the rows,
\* the values of a row in the order of the columns.
SheetData(frame) ==
    <<[j \in DOMAIN frame.columns |-> Str(frame.columns[j])]>>
    \o [i \in DOMAIN frame.rows |->
          [j \in DOMAIN frame.columns |-> frame.rows[i][frame.columns[j]]]]

\* What the worksheet may hold before the sync: nothing, the rows an earlier
\* sync pushed, or rows of somebody's own.
PriorSheets ==
    {<<>>, SheetData(FillNa(ReadFrame(EarlierLedgerAll))), <<<<Str("notes")>>, <<Str("keep")>>>>}

\* Why sync_to_google_sheets returns before its try: gspread is not
\* installed, the credentials file is not there, GOOGLE_SHEET_ID is not set.
EarlyReturns == {"unavailable", "no_credentials", "no_sheet_id"}

\* sync_to_google_sheets(master_file) is called on a worksheet, with or
\* without a master file.
InitSheets ==
    /\ LedgerIdle
    /\ PartsIdle
    /\ SyncIdle
    /\ SweepIdle
    /\ HubIdle
    /\ ledger \in {NoLedger} \cup SavedLedgers
    /\ ledger_df = EmptyFrame
    /\ csv_queue = <<>>
    /\ files_done = <<>>
    /\ collected_leads = <<>>
    /\ ingest_pc = "idle"
    /\ worksheet \in PriorSheets
    /\ sheet_prior = worksheet
    /\ sheet_df = EmptyFrame
    /\ sheet_pc = "called"
    /\ DriverIdle

\* One of the checks before the try fails: a message is printed and the
\* function returns.
SheetsReturnsEarly ==
    /\ sheet_pc = "called"
    /\ \E why \in EarlyReturns : sheet_pc' = why
    /\ UNCHANGED <<ledger_vars, part_vars, sync, sweep_vars, ingest_vars, hub_vars,
                   driver_vars, worksheet, sheet_prior, sheet_df>>

\* The try up to clear(): credentials, authorize, open_by_key,
\* get_worksheet, read_csv of the master file, fillna('').
SheetsOpens ==
    /\ sheet_pc = "called"
    /\ ledger.exists
    /\ sheet_df' = FillNa(ReadFrame(ledger))
    /\ sheet_pc' = "opened"
    /\ UNCHANGED <<ledger_vars, part_vars, sync, sweep_vars, ingest_vars, hub_vars,
                   driver_vars, worksheet, sheet_prior>>

\* One of the calls before clear() raises (read_csv does when there is no
\* master file): the except prints and the function returns.
SheetsOpenFails ==
    /\ sheet_pc = "called"
    /\ sheet_pc' = "failed"
    /\ UNCHANGED <<ledger_vars, part_vars, sync, sweep_vars, ingest_vars, hub_vars,
                   driver_vars, worksheet, sheet_prior, sheet_df>>

\* worksheet.clear() is served.
SheetsClears ==
    /\ sheet_pc = "opened"
    /\ worksheet' = <<>>
    /\ sheet_pc' = "cleared"
    /\ UNCHANGED <<ledger_vars, part_vars, sync, sweep_vars, ingest_vars, hub_vars,
                   driver_vars, sheet_prior, sheet_df>>

\* worksheet.clear() raises: the except prints and the function returns.
SheetsClearFails ==
    /\ sheet_pc = "opened"
    /\ sheet_pc' = "failed"
    /\ UNCHANGED <<ledger_vars, part_vars, sync, sweep_vars, ingest_vars, hub_vars,
                   driver_vars, worksheet, sheet_prior, sheet_df>>

\* worksheet.update(values=data, range_name='A1') is served.
SheetsUpdates ==
    /\ sheet_pc = "cleared"
    /\ worksheet' = SheetData(sheet_df)
    /\ sheet_pc' = "updated"
    /\ UNCHANGED <<ledger_vars, part_vars, sync, sweep_vars, ingest_vars, hub_vars,
                   driver_vars, sheet_prior, sheet_df>>

\* worksheet.update raises: the except prints and the function returns, the
\* worksheet as clear() left it.
SheetsUpdateFails ==
    /\ sheet_pc = "cleared"
    /\ sheet_pc' = "failed"
    /\ UNCHANGED <<ledger_vars, part_vars, sync, sweep_vars, ingest_vars, hub_vars,
                   driver_vars, worksheet, sheet_prior, sheet_df>>

\* format and freeze of the header row: they are served and the function
\* returns, or one raises, the except prints and the function returns.
SheetsFormats ==
    /\ sheet_pc = "updated"
    /\ sheet_pc' \in {"synced", "failed"}
    /\ UNCHANGED <<ledger_vars, part_vars, sync, sweep_vars, ingest_vars, hub_vars,
                   driver_vars, worksheet, sheet_prior, sheet_df>>

NextSheets ==
    \/ SheetsReturnsEarly
    \/ SheetsOpens
    \/ SheetsOpenFails
    \/ SheetsClears
    \/ SheetsClearFails
    \/ SheetsUpdates
    \/ SheetsUpdateFails
    \/ SheetsFormats

SpecSheets == InitSheets /\ [][NextSheets]_vars

\* ------------------------------------------------- main and its driver

\* The calls in the try of main, in their order.
Stages ==
    <<"login", "export_leads", "convert_downloads_to_csv", "consolidate_leads",
      "sync_to_google_sheets", "sync_to_hubspot">>

\* The place of a stage in the try.
StageIndex(name) == CHOOSE i \in DOMAIN Stages : Stages[i] = name

\* main is in a stage.
InStage == \E i \in DOMAIN Stages : Stages[i] = main_pc

\* Where main goes when the stage returns: the next stage, or the finally.
AfterStage(name) ==
    IF StageIndex(name) < Len(Stages) THEN Stages[StageIndex(name) + 1] ELSE "finally"

\* main is not in an execution.
MainOver == main_pc \in {"idle", "returned", "raised"}

OthersUnchanged == UNCHANGED <<ledger_vars, part_vars, sync, sweep_vars, ingest_vars,
                               hub_vars, sheet_vars>>

InitDriver ==
    /\ LedgerIdle
    /\ PartsIdle
    /\ SyncIdle
    /\ SweepIdle
    /\ IngestIdle
    /\ HubIdle
    /\ SheetIdle
    /\ DriverIdle

\* main is called and setup_driver(DOWNLOAD_DIR) returns a driver: main
\* enters its try.
SetupDriver ==
    /\ MainOver
    /\ Len(main_log) < MaxRuns
    /\ driver' = "open"
    /\ quit_calls' = 0
    /\ pending' = "none"
    /\ main_pc' = Stages[1]
    /\ UNCHANGED main_log
    /\ OthersUnchanged

\* main is called and setup_driver raises: there is no driver, and main is
\* left before its try.
SetupFails ==
    /\ MainOver
    /\ Len(main_log) < MaxRuns
    /\ driver' = "none"
    /\ quit_calls' = 0
    /\ pending' = "setup_driver"
    /\ main_pc' = "raised"
    /\ main_log' = Append(main_log, [raised |-> "setup_driver", quits |-> 0])
    /\ OthersUnchanged

\* The stage main is in returns: main goes on to the next one, or to its
\* finally after the last.
StageReturns ==
    /\ InStage
    /\ main_pc' = AfterStage(main_pc)
    /\ UNCHANGED <<driver, quit_calls, pending, main_log>>
    /\ OthersUnchanged

\* The stage raises and main has no finally: the exception leaves main.
StageRaisesPastFinally ==
    /\ InStage
    /\ pending' = main_pc
    /\ main_pc' = "raised"
    /\ main_log' = Append(main_log, [raised |-> main_pc, quits |-> quit_calls])
    /\ UNCHANGED <<driver, quit_calls>>
    /\ OthersUnchanged

\* The stage main is in raises: the try has no except, the exception goes to
\* the finally.
StageRaises ==
    /\ InStage
    /\ pending' = main_pc
    /\ main_pc' = "finally"
    /\ UNCHANGED <<driver, quit_calls, main_log>>
    /\ OthersUnchanged

\* finally: driver.quit(); then main returns, or the exception of the stage
\* goes on to the caller.
DriverQuit ==
    /\ main_pc = "finally"
    /\ driver' = "quit"
    /\ quit_calls' = quit_calls + 1
    /\ main_pc' = IF pending = "none" THEN "returned" ELSE "raised"
    /\ main_log' = Append(main_log, [raised |-> pending, quits |-> quit_calls + 1])
    /\ UNCHANGED pending
    /\ OthersUnchanged

NextDriver == SetupDriver \/ SetupFails \/ StageReturns \/ StageRaises \/ DriverQuit

SpecDriver == InitDriver /\ [][NextDriver]_vars

\* A stage that was called returns or raises, and the finally of main is run.
SpecDriverFair ==
    InitDriver /\ [][NextDriver]_vars /\ WF_vars(StageReturns \/ StageRaises \/ DriverQuit)

\* ----------------------------------------------------------------- claims

\* The records of a master file: its lines after the header.
Records(file) == IF file.lines = <<>> THEN <<>> ELSE Tail(file.lines)

\* The (email, date, resource) triple of a line of the master file.
TextKey(line) == <<line.email, line.date, line.resource>>

KeysOf(file) == {TextKey(Records(file)[i]) : i \in DOMAIN Records(file)}

UniqueKeys(file) ==
    \A i, j \in DOMAIN Records(file) :
        i # j => TextKey(Records(file)[i]) # TextKey(Records(file)[j])

\* C1: after any sequence of successful runs the persisted ledger holds no two
\* records with the same (email, date, resource) and no record with an empty
\* email, records with an empty resource or date included.
C1_UniqueKeysNoEmptyEmail ==
    master_file.exists =>
        /\ UniqueKeys(master_file)
        /\ \A i \in DOMAIN Records(master_file) : Records(master_file)[i].email # ""

\* The lines to_csv writes for a frame's rows, without the header.
RowsText(df) == Tail(ToCsv(df))

\* The run of instance p returned after rewriting the master file.
Updated(p) == pc[p] = "done" /\ wrote[p]

\* The existing-then-incoming concatenation of the run, as the records read
\* in a ledger file: the records loaded, then the leads of the run's CSVs.
ConcatText(p) == Records(before[p]) \o RowsText(AllLeads(csv_files))

\* C2: for every key of the existing-then-incoming concatenation exactly one
\* record with that key is in the rewritten ledger, and it is the earliest
\* record with that key in the concatenation, its fields unchanged.
C2_FirstOccurrenceWins ==
    Updated("main1") =>
        LET cat == ConcatText("main1")
            out == Records(master_file)
        IN  \A i \in DOMAIN cat :
                (\A j \in 1..(i - 1) : TextKey(cat[j]) # TextKey(cat[i])) =>
                    /\ \E n \in DOMAIN out : out[n] = cat[i]
                    /\ Cardinality({n \in DOMAIN out : TextKey(out[n]) = TextKey(cat[i])}) = 1

\* How often a line occurs in a sequence of lines.
Count(line, lines) == Cardinality({i \in DOMAIN lines : lines[i] = line})

SameRecords(f, g) ==
    /\ Len(Records(f)) = Len(Records(g))
    /\ \A i \in DOMAIN Records(f) : Count(Records(f)[i], Records(f)) = Count(Records(f)[i], Records(g))

\* C3: a second run on the same export files, loading the ledger the first
\* run persisted, leaves the ledger with exactly the same records.
C3_RerunIsNoOp ==
    (pc["main1"] = "done" /\ rerun["main1"]) => SameRecords(master_file, before["main1"])

\* C4: after a successful update the ledger's key set is the union of the key
\* set of the ledger loaded and the key set of the normalized incoming rows.
C4_KeysAreUnion ==
    Updated("main1") =>
        KeysOf(master_file) =
            KeysOf(before["main1"]) \cup
            {TextKey(RowsText(AllLeads(csv_files))[i]) : i \in DOMAIN AllLeads(csv_files)}

\* The complete file a run's to_csv is writing.
NewFile(p) == [exists |-> TRUE, lines |-> ToCsv(combined_df[p])]

\* C5: at every instant of a ledger write the ledger path holds the complete
\* previous ledger or the complete new one, and after a failed write it holds
\* the previous ledger.
C5_NoPartialLedger ==
    /\ pc["main1"] = "writing" => master_file \in {before["main1"], NewFile("main1")}
    /\ pc["main1"] = "write_error" => master_file = before["main1"]

\* C6: when two runs on the same ledger path have both written, the ledger is
\* exactly the full rewrite of the run that wrote last, and its keys are unique.
C6_LastWriterWins ==
    (\A p \in Procs : Updated(p)) =>
        /\ master_file = NewFile(last_writer)
        /\ UniqueKeys(master_file)

\* C7: a run that ends in a ledger read or write error leaves the persisted
\* ledger exactly as it was before the run.
C7_ErrorLeavesLedger ==
    pc["main1"] \in {"read_error", "write_error"} => master_file = before["main1"]

\* The leads of the run's CSV files that can be parsed, as ledger records.
GoodLeads ==
    UNION {{RowsText(NormalizeFile(csv_files[i].lines))[n] :
               n \in DOMAIN NormalizeFile(csv_files[i].lines)} :
           i \in {j \in DOMAIN csv_files : csv_files[j].ok}}

\* C8: a file that cannot be parsed does not abort the batch: during a run
\* every readable workbook has its CSV, and when the run has returned, the
\* run rewrote the ledger if any parsable CSV has a lead, and every lead of
\* every parsable CSV is in the ledger.
C8_BadFileSkipped ==
    /\ pc["main1"] \in {"loaded", "persist"} =>
          \A i \in DOMAIN download_dir :
              download_dir[i].kind # "corrupt" =>
                  \E j \in DOMAIN csv_files : csv_files[j] = ConvertFile(download_dir[i])
    /\ pc["main1"] = "done" =>
          \A l \in GoodLeads : wrote["main1"] /\ TextKey(l) \in KeysOf(master_file)

\* C8 witness: a run rewrote the ledger although a CSV that cannot be parsed
\* came before a CSV with a lead.
C8_Witness ==
    /\ Updated("main1")
    /\ \E i, j \in DOMAIN csv_files :
          /\ i < j
          /\ ~csv_files[i].ok
          /\ csv_files[j].ok
          /\ NormalizeFile(csv_files[j].lines) # <<>>

\* The run of main1 returned and its CSV files held no lead.
EmptyBatchDone == pc["main1"] = "done" /\ AllLeads(csv_files) = <<>>

TextTime(line) == ParseDate(ReadCell(line.date, "str"))

\* C10: the rewritten ledger is ordered by parsed date descending, the records
\* whose date does not parse last.
C10_SortedByDateDesc ==
    Updated("main1") =>
        \A i, j \in DOMAIN Records(master_file) :
            i < j =>
                LET a == TextTime(Records(master_file)[i])
                    b == TextTime(Records(master_file)[j])
                IN  /\ a = NaT => b = NaT
                    /\ (a # NaT /\ b # NaT) => a >= b

\* C10 witness: a rewritten ledger with two different parsed dates and an
\* unparsable one, which the sort had to reorder.
C10_Witness ==
    /\ Updated("main1")
    /\ \E i, j, k \in DOMAIN Records(master_file) :
          /\ i < j /\ j < k
          /\ TextTime(Records(master_file)[i]) > TextTime(Records(master_file)[j])
          /\ TextTime(Records(master_file)[j]) # NaT
          /\ TextTime(Records(master_file)[k]) = NaT
    /\ combined_df["main1"] #
          DropDuplicates(Concat(master_df["main1"], AllLeads(csv_files)))

\* The deduplicated existing-then-incoming concatenation of the run of p.
Deduped(p) == DropDuplicates(Concat(master_df[p], AllLeads(csv_files)))

\* Where a row of the deduplicated frame is in a frame with the same rows.
PosIn(df, r) == CHOOSE n \in DOMAIN df : df[n] = r

\* C11: the sort is stable: two records whose parsed dates are equal, or whose
\* dates both do not parse, are in the sorted frame in the order they had in
\* the deduplicated existing-then-incoming concatenation.
C11_SortStable ==
    Updated("main1") =>
        LET d == Deduped("main1")
            out == combined_df["main1"]
        IN  \A i, j \in DOMAIN d :
                (i < j /\ ParseDate(d[i].date) = ParseDate(d[j].date)) =>
                    PosIn(out, d[i]) < PosIn(out, d[j])

\* The part of C11 about the records whose dates do not parse.
UndatedKeepOrder ==
    Updated("main1") =>
        LET d == Deduped("main1")
            out == combined_df["main1"]
        IN  \A i, j \in DOMAIN d :
                (i < j /\ ParseDate(d[i].date) = NaT /\ ParseDate(d[j].date) = NaT) =>
                    PosIn(out, d[i]) < PosIn(out, d[j])

\* The run of p loaded when no master file existed.
FirstRun(p) == ~before[p].exists

\* The records of a file are ordered by parsed date descending, those whose
\* date does not parse last.
DateDescending(file) ==
    \A i, j \in DOMAIN Records(file) :
        i < j =>
            /\ TextTime(Records(file)[i]) = NaT => TextTime(Records(file)[j]) = NaT
            /\ TextTime(Records(file)[j]) # NaT =>
                   TextTime(Records(file)[i]) >= TextTime(Records(file)[j])

\* C12: when no master file exists the load gives the empty frame and no
\* error, and the ledger the run persists holds exactly the incoming leads,
\* one per key, the first with that key, sorted by date descending.
C12_FirstRunSeeds ==
    /\ FirstRun("main1") => pc["main1"] # "read_error"
    /\ (FirstRun("main1") /\ pc["main1"] \in {"loaded", "persist", "done"}) =>
           master_df["main1"] = <<>>
    /\ (FirstRun("main1") /\ Updated("main1")) =>
           LET inc == RowsText(AllLeads(csv_files))
               out == Records(master_file)
           IN  /\ \A n \in DOMAIN out :
                      \E i \in DOMAIN inc :
                          /\ out[n] = inc[i]
                          /\ \A j \in 1..(i - 1) : TextKey(inc[j]) # TextKey(inc[i])
               /\ \A i \in DOMAIN inc : TextKey(inc[i]) \in KeysOf(master_file)
               /\ UniqueKeys(master_file)
               /\ DateDescending(master_file)

\* C12 witness: a first run persisted fewer records than it had incoming
\* leads, two of them having the same key.
C12_Witness ==
    /\ FirstRun("main1")
    /\ Updated("main1")
    /\ Len(Records(master_file)) < Len(AllLeads(csv_files))
    /\ Len(Records(master_file)) > 0

\* ---------------------------------------------- claims on the normalizer

\* The file of SpecNorm has been through the loop body, and it could be read.
Normalized == stage = "normalized" /\ csv_file.ok

\* A text of blanks only (the empty text included).
OnlyBlanks(t) == \A i \in 1..Len(t) : SubSeq(t, i, i) = " "

\* The text of a cell without the blanks around it, empty for a missing cell.
Trimmed(cell) ==
    LET t == CellText(cell)
        inked == {i \in 1..Len(t) : SubSeq(t, i, i) # " "}
    IN  IF cell.k = "nan" \/ inked = {} THEN ""
        ELSE SubSeq(t, CHOOSE i \in inked : \A j \in inked : i <= j,
                       CHOOSE i \in inked : \A j \in inked : j <= i)

\* The cell of the first of the labels a row has, a missing cell for none.
FirstPresent(row, labels) ==
    LET present == {i \in DOMAIN labels : labels[i] \in DOMAIN row}
    IN  IF present = {} THEN NaN
        ELSE row[labels[CHOOSE i \in present : \A j \in present : i <= j]]

\* A row whose resolved email is absent, null or only whitespace.
NoEmail(row) == OnlyBlanks(Trimmed(FirstPresent(row, <<"User Email", "email">>)))

\* The rows of the file that have an email, in file order.
RowsWithEmail ==
    SelectIdx(csv_file.df, {i \in DOMAIN csv_file.df : ~NoEmail(csv_file.df[i])})

\* C13: every lead the normalizer emits has an email that is not empty after
\* trimming; a row whose resolved email is absent, null or only whitespace is
\* dropped without an error, and the other rows give the leads they give
\* without it, in file order.
C13_NoEmptyEmail ==
    Normalized =>
        /\ \A n \in DOMAIN normalized_data : ~OnlyBlanks(normalized_data[n].email.v)
        /\ \E now \in Clock :
              normalized_data =
                  [n \in DOMAIN RowsWithEmail |->
                      NormalizeLead(RowsWithEmail[n], SourceType(Stem(csv_file.name)),
                                    csv_file.name, now)]
        /\ \A i \in DOMAIN printed : printed[i].what # "error"

\* C13 witness: a row whose email is a blank was dropped, and the row after
\* it gave a lead.
C13_Witness ==
    /\ Normalized
    /\ Len(csv_file.df) = 2
    /\ "User Email" \in DOMAIN csv_file.df[1]
    /\ csv_file.df[1]["User Email"] = Str(" ")
    /\ Len(normalized_data) = 1

\* The rows of the file that gave no lead.
Dropped == Len(csv_file.df) - Len(normalized_data)

\* C14: the rows dropped for a missing email are counted and the count is
\* reported, and so is a file that is skipped.
C14_SkippedCounted ==
    stage = "normalized" =>
        /\ (csv_file.ok /\ Dropped > 0) =>
              \E i \in DOMAIN printed :
                  printed[i].what = "skipped_rows" /\ printed[i].n = Dropped
        /\ ~csv_file.ok =>
              \E i \in DOMAIN printed :
                  printed[i].what = "skipped_files" /\ printed[i].n = 1

\* The classification of a file name as the specification words it: the
\* keywords in priority order, each with its source type.
TypeRules ==
    <<<<"datasheet", "Datasheet">>, <<"data_sheet", "Datasheet">>,
      <<"whitepaper", "Whitepaper">>, <<"quotation", "Quotation">>,
      <<"inquiry", "Contact Inquiry">>, <<"contact", "Contact Inquiry">>>>

ClaimedType(name) ==
    LET hits == {i \in DOMAIN TypeRules : Contains(TypeRules[i][1], Lower(name))}
    IN  IF hits = {} THEN "Other"
        ELSE TypeRules[CHOOSE i \in hits : \A j \in hits : i <= j][2]

\* C15: the source_type of every lead of a file is the one its file name
\* gives by case-insensitive substring match in priority order, whatever the
\* columns of the file, and it is one of the five values.
C15_SourceTypeFromName ==
    Normalized =>
        /\ \A n \in DOMAIN normalized_data :
              /\ normalized_data[n].source_type.v = ClaimedType(csv_file.name)
              /\ normalized_data[n].source_type.v \in
                    {"Datasheet", "Whitepaper", "Quotation", "Contact Inquiry", "Other"}
        /\ (csv_file.name = "whitepaper_export.csv") =>
              \A n \in DOMAIN normalized_data : normalized_data[n].source_type.v = "Whitepaper"
        /\ (csv_file.name = "WHITEPAPER datasheet.csv") =>
              \A n \in DOMAIN normalized_data : normalized_data[n].source_type.v = "Datasheet"
        /\ (csv_file.name = "contacts_quotation.csv") =>
              \A n \in DOMAIN normalized_data : normalized_data[n].source_type.v = "Quotation"

\* C15 witness: two leads of a file whose name has two keywords, the one of
\* lower priority first and in capitals.
C15_Witness ==
    /\ Normalized
    /\ csv_file.name = "WHITEPAPER datasheet.csv"
    /\ Len(normalized_data) = 2
    /\ csv_file.df[1] # csv_file.df[2]

\* The text after the last '/' of a text, the whole text when it has none.
AfterLastSlash(t) ==
    LET k == CHOOSE k \in 0..Len(t) :
                 /\ \A i \in (k + 1)..Len(t) : SubSeq(t, i, i) # "/"
                 /\ k = 0 \/ SubSeq(t, k, k) = "/"
    IN  SubSeq(t, k + 1, Len(t))

\* The resource as the specification words it.
ClaimedResource(row) ==
    IF "Part Number" \in DOMAIN row THEN Trimmed(row["Part Number"])
    ELSE IF "White Paper Title" \in DOMAIN row THEN Trimmed(row["White Paper Title"])
    ELSE IF "Product Url" \in DOMAIN row THEN AfterLastSlash(Trimmed(row["Product Url"]))
    ELSE ""

\* C16: the resource of a lead is the trimmed part number when the table has
\* that column, even if empty; else the trimmed white paper title when it has
\* that column; else the text after the last '/' of the trimmed product URL
\* when it has that column; else empty.
C16_ResourceByColumn ==
    Normalized =>
        /\ Len(normalized_data) = Len(RowsWithEmail)
        /\ \A n \in DOMAIN normalized_data :
              /\ normalized_data[n].resource.v = ClaimedResource(RowsWithEmail[n])
              /\ (/\ DOMAIN RowsWithEmail[n] = {"User Email", "Product Url"}
                  /\ RowsWithEmail[n]["Product Url"] = Str("https://site.com/products/laser-42"))
                 => normalized_data[n].resource.v = "laser-42"

\* C16 witness: a lead of a row with an empty part number beside a white
\* paper title and a product URL.
C16_Witness ==
    /\ Normalized
    /\ Len(normalized_data) = 1
    /\ DOMAIN csv_file.df[1] = {"User Email", "Part Number", "White Paper Title", "Product Url"}
    /\ csv_file.df[1]["Part Number"] = NaN
    /\ csv_file.df[1]["White Paper Title"] # NaN
    /\ csv_file.df[1]["Product Url"] # NaN
    /\ normalized_data[1].resource.v = ""

\* The alias columns of the contact fields and of the date, in priority order.
AliasesOf ==
    [email |-> <<"User Email", "email">>,
     name |-> <<"User Name", "name">>,
     company |-> <<"User Company", "company">>,
     phone |-> <<"User Telephone", "telephone", "phone">>,
     country |-> <<"User Country", "country">>,
     state |-> <<"User State", "state">>,
     city |-> <<"User City", "city">>,
     address |-> <<"User Address", "address">>,
     date |-> <<"Downloaded On", "downloaded_on">>]

\* C17: each contact field and the date of a lead is the trimmed value of the
\* first of its alias columns the table has, and empty when it has none.
C17_FirstAliasPresent ==
    Normalized =>
        /\ Len(normalized_data) = Len(RowsWithEmail)
        /\ \A n \in DOMAIN normalized_data :
              \A f \in DOMAIN AliasesOf :
                  normalized_data[n][f].v = Trimmed(FirstPresent(RowsWithEmail[n], AliasesOf[f]))

\* C17 witness: a lead of a row whose first phone alias is absent and whose
\* second is missing while the third has a value: the phone is empty.
C17_Witness ==
    /\ Normalized
    /\ Len(normalized_data) = 1
    /\ DOMAIN csv_file.df[1] = {"User Email", "telephone", "phone"}
    /\ csv_file.df[1]["telephone"] = NaN
    /\ csv_file.df[1]["phone"] # NaN
    /\ normalized_data[1].phone.v = ""

\* C18: every field of every lead the normalizer emits is a text without
\* whitespace at its start or end, the empty text for an absent or null value.
C18_FieldsTrimmed ==
    stage = "normalized" =>
        \A n \in DOMAIN normalized_data :
            \A f \in DOMAIN normalized_data[n] :
                /\ normalized_data[n][f].k = "str"
                /\ normalized_data[n][f].v = Trimmed(normalized_data[n][f])

\* The part of C18 about the fields that are the result of safe_str.
SafeStrFieldsTrimmed ==
    stage = "normalized" =>
        \A n \in DOMAIN normalized_data :
            \A f \in DOMAIN AliasesOf :
                /\ normalized_data[n][f].k = "str"
                /\ normalized_data[n][f].v = Trimmed(normalized_data[n][f])

\* ------------------------------------------- claims on the stages of main

\* The master file is as consolidate_leads of the run left it: the complete
\* file the run wrote, or the file the run loaded when it wrote nothing.
Finalized(p) == master_file = IF wrote[p] THEN NewFile(p) ELSE before[p]

\* C19: the sync stages of a run begin only when consolidate_leads of that run
\* has returned, never in a run that an exception of consolidate_leads ended;
\* they find the master file as consolidate_leads left it, and leave it as
\* they found it, whether they sync, are skipped or fail.
C19_SyncReadsFinalLedger ==
    /\ pc["main1"] \in {"loaded", "persist", "writing", "read_error", "write_error"} =>
          sync.run # runs
    /\ pc["main1"] \in {"sheets_done", "returned"} =>
          /\ sync.run = runs
          /\ master_file = sync.ledger
          /\ Finalized("main1")

\* C19 witness: main returned after a run that rewrote the ledger, the first
\* sync stage having failed and the second having synced.
C19_Witness ==
    /\ pc["main1"] = "returned"
    /\ wrote["main1"]
    /\ Records(master_file) # <<>>
    /\ sync.sheets = "failed"
    /\ sync.hubspot = "synced"

\* ----------------------------------------------- claims on the summary

\* The lines of the summary report.
SummaryLines == SelectIdx(printed, {i \in DOMAIN printed : printed[i].what = "summary"})

\* The report has, for every source type in the column, one line with the
\* number of rows of that type, no other line, and counts that sum to the
\* number of rows.
SummaryRight ==
    /\ \A i \in DOMAIN source_type_col :
          Cardinality({l \in DOMAIN SummaryLines :
                          SummaryLines[l].of = source_type_col[i].v}) = 1
    /\ \A l \in DOMAIN SummaryLines :
          /\ \E i \in DOMAIN source_type_col : source_type_col[i].v = SummaryLines[l].of
          /\ SummaryLines[l].n =
                Cardinality({i \in DOMAIN source_type_col :
                                source_type_col[i].v = SummaryLines[l].of})
    /\ SeqSum([l \in DOMAIN SummaryLines |-> SummaryLines[l].n]) = Len(source_type_col)

\* C20: the summary reports for every source_type of the ledger the number of
\* records that carry it, the counts sum to the number of records, and making
\* the summary changes neither the frame nor the master file.
C20_SummaryCounts ==
    [][(stage = "saved" /\ stage' = "summarized") =>
          /\ SummaryRight'
          /\ source_type_col' = source_type_col
          /\ master_file' = master_file]_vars

\* C20 witness: a summary of two lines, for a source type two records have
\* and one a single record has.
C20_Witness ==
    /\ stage = "summarized"
    /\ Len(source_type_col) = 3
    /\ Len(SummaryLines) = 2
    /\ SummaryLines[1].n = 2
    /\ SummaryLines[2].n = 1

\* ------------------------------------------------------------ C21, C22

\* cleanup_old_files is over, by return or by exception.
SweepOver == sweep_pc \in {"returned", "raised"}

\* The entry is older than the cutoff of the call.
Older(i) == dir_listing[i].st_mtime < CutoffTime(time_now, keep_days)

\* C21: when the sweep is over, every file of the directory whose
\* last-modified time is older than now minus keep_days days is deleted, and
\* every file whose last-modified time is not older is still there.
C21_SweepByAge ==
    SweepOver =>
       \A i \in DOMAIN dir_listing :
          dir_listing[i].kind = "file" => (i \notin on_disk <=> Older(i))

\* C22: when the sweep is over, whatever entry failed, every other entry
\* older than the cutoff is deleted, and the sweep did not end by the
\* exception of an entry.
C22_SweepBestEffort ==
    SweepOver =>
       /\ sweep_pc = "returned"
       /\ \A i \in DOMAIN dir_listing :
             (Older(i) /\ ~StatRaises(dir_listing[i]) /\ ~UnlinkRaises(dir_listing[i]))
                => i \notin on_disk

\* ---------------------------------------------------------------- C23

\* C23: the master file a run of consolidate_leads has written has the header
\* email, name, company, phone, country, state, city, address, date,
\* resource, source_type, source_file, imported_at, in this order, with no
\* other column and none missing, and every line of it has these columns.
C23_LedgerHeader ==
    ingest_pc = "saved" =>
       /\ ledger.exists
       /\ ledger.header =
             <<"email", "name", "company", "phone", "country", "state", "city",
               "address", "date", "resource", "source_type", "source_file",
               "imported_at">>
       /\ \A i \in DOMAIN ledger.lines :
             DOMAIN ledger.lines[i] =
                {"email", "name", "company", "phone", "country", "state", "city",
                 "address", "date", "resource", "source_type", "source_file",
                 "imported_at"}

\* A run has merged new leads into a master file that was there, and the
\* file holds the earlier lead and a new one.
C23_Witness ==
    /\ ingest_pc = "saved"
    /\ ledger_df.rows # <<>>
    /\ Len(ledger.lines) = 2

\* ---------------------------------------------------------------- C26

\* The leads with an email of all the rows of a file.
LeadsOfFile(file) == Emitted(LeadsUpTo(file, Len(file.df)))

\* C26: all_leads holds all the leads of the files whose processing went
\* through, in the order of the files, and no lead of a file whose processing
\* raised; the master file a run writes has no line of a file that raised.
C26_FileAllOrNothing ==
    /\ collected_leads =
          Flatten([i \in DOMAIN files_done |->
                     IF files_done[i].ok /\ files_done[i].fault = 0
                     THEN LeadsOfFile(files_done[i]) ELSE <<>>])
    /\ ingest_pc = "saved" =>
          \A i \in DOMAIN ledger.lines : \A j \in DOMAIN files_done :
             (~files_done[j].ok \/ files_done[j].fault > 0)
                => ledger.lines[i].source_file # files_done[j].name

\* A file raised at its second row, its first row having given a lead, and
\* the leads of another file that went through have been saved.
C26_Witness ==
    /\ ingest_pc = "saved"
    /\ \E j \in DOMAIN files_done :
          /\ files_done[j].fault = 2
          /\ NormalizedData(files_done[j]) # <<>>
    /\ \E j \in DOMAIN files_done : files_done[j].fault = 0 /\ LeadsOfFile(files_done[j]) # <<>>

\* ------------------------------------------------------------ C24, C25

\* The writes among the calls made for a row.
Writes(entry) ==
    SelectIdx(entry.calls, {i \in DOMAIN entry.calls : entry.calls[i].op # "search"})

\* C24: for every row taken, of either sync: with an email, exactly one
\* contact write is issued, an update when the email had a contact in HubSpot
\* and a create when it had none, whatever the search did; without an email,
\* no write is issued.
C24_UpsertByEmail ==
    \A i \in DOMAIN hub_log :
       IF hub_log[i].email = ""
       THEN Writes(hub_log[i]) = <<>>
       ELSE /\ Len(Writes(hub_log[i])) = 1
            /\ Writes(hub_log[i])[1].op = IF hub_log[i].existed THEN "update" ELSE "create"

\* A call made for the row was refused.
CallFailed(entry) == \E i \in DOMAIN entry.calls : entry.calls[i].result # "ok"

\* C25: of either sync, a row with a refused call is counted as one error and
\* no call is made twice for a row; when the sync is over every row has been
\* taken and created + updated + errors of sync_to_hubspot, success + errors
\* of ContactSyncer.sync, is the number of rows with an email.
C25_RetryFreeRowIsolated ==
    /\ \A i \in DOMAIN hub_log :
          /\ CallFailed(hub_log[i]) => hub_log[i].errors = 1
          /\ \A j, k \in DOMAIN hub_log[i].calls :
                hub_log[i].calls[j].op = hub_log[i].calls[k].op => j = k
    /\ hub_pc = "done" =>
          /\ hub_rows = <<>>
          /\ IF hub_client = "sync_to_hubspot"
             THEN hub_counts.created + hub_counts.updated + hub_counts.errors
                     = Cardinality({i \in DOMAIN hub_log : hub_log[i].email # ""})
             ELSE hub_counts.success + hub_counts.errors = Len(hub_log)

\* ---------------------------------------------------------------- C27

\* sync_to_google_sheets has returned.
SheetsReturned == sheet_pc \in EarlyReturns \cup {"failed", "synced"}

\* The header row of the master file followed by all its lines, as texts.
LedgerOnSheet ==
    <<ledger.header>>
    \o [i \in DOMAIN ledger.lines |->
          [j \in DOMAIN ledger.header |-> ledger.lines[i][ledger.header[j]]]]

\* The texts of the cells of the worksheet.
SheetTexts == [i \in DOMAIN worksheet |-> [j \in DOMAIN worksheet[i] |-> CellText(worksheet[i][j])]]

\* C27: when sync_to_google_sheets has returned, the worksheet holds what it
\* held before the call, or the header row of the master file followed by
\* all its rows; it is not left empty or partly filled.
C27_SheetWholeOrUntouched ==
    SheetsReturned =>
       \/ worksheet = sheet_prior
       \/ ledger.exists /\ SheetTexts = LedgerOnSheet

\* ---------------------------------------------------------------- C28

\* C28: once setup_driver has returned a driver, the execution of main comes
\* to call driver.quit(); it never calls it twice; when the execution is
\* over it has called it once, and when a stage raised, main is left by that
\* exception, after the quit.
C28_DriverQuitOnce ==
    /\ (driver = "open") ~> (driver = "quit" /\ quit_calls = 1 /\ MainOver)
    /\ [](quit_calls <= 1)
    /\ [](\A i \in DOMAIN main_log :
             main_log[i].raised # "setup_driver" => main_log[i].quits = 1)
    /\ []((MainOver /\ driver # "none") =>
             /\ driver = "quit"
             /\ quit_calls = 1
             /\ main_pc = (IF pending = "none" THEN "returned" ELSE "raised"))

\* An execution in which consolidate_leads raised is over: the driver is
\* quit and the exception has left main; an execution before it went through.
C28_Witness ==
    /\ main_pc = "raised"
    /\ pending = "consolidate_leads"
    /\ driver = "quit"
    /\ quit_calls = 1
    /\ Len(main_log) = 2
    /\ main_log[1] = [raised |-> "none", quits |-> 1]

====
